---- MODULE Spec2Model ----
(***************************************************************************)
(* Multi-tenant payment gateway: webhook relay (inbound verification,      *)
(* callback store, outbound signed delivery) and per-tenant OAuth2 token   *)
(* cache.                                                                  *)
(*                                                                         *)
(* Node.js runs one handler at a time until it awaits; every action below  *)
(* is one such run-to-suspension segment of a handler.  The generation     *)
(* timestamp of an outbound event and the pass-through data fields         *)
(* (amount, customer, card, ...) are not part of the model.                *)
(***************************************************************************)
EXTENDS Integers, Sequences, FiniteSets, TLC

(***************************************************************************)
(* Bounds                                                                  *)
(***************************************************************************)
NumRequests == 2     \* inbound webhook requests over a run
NumCalls == 2        \* getAccessToken calls over a run
MaxTime == 2         \* last clock instant, in seconds

(***************************************************************************)
(* Values                                                                  *)
(***************************************************************************)
\* JavaScript undefined, for optional object-valued fields
Undefined == [undefined |-> TRUE]

\* crypto.createHmac('sha256', secret).update(payload).digest('hex'):
\* a 64 character string determined by (secret, payload), collision free
HexDigestLen == 64

HmacSha256Hex(secret, payload) ==
  [len |-> HexDigestLen, alg |-> "hmac-sha256", key |-> secret, msg |-> payload]

\* a header value that is not a digest: n characters of other text
OtherText(n) ==
  [len |-> n, alg |-> "text", key |-> "", msg |-> Undefined]

\* JavaScript truthiness of a string | undefined header value
Truthy(s) == s # Undefined /\ s.len > 0

\* crypto.timingSafeEqual(Buffer.from(a), Buffer.from(b)): "throw" when an
\* argument is undefined (Buffer.from) or the byte lengths differ, else the
\* comparison
\* mutant: only the lengths are compared
timingSafeEqualLengthOnly(a, b) ==
  IF a = Undefined \/ b = Undefined THEN "throw"
  ELSE IF a.len # b.len THEN "throw" ELSE "true"

timingSafeEqual(a, b) ==
  IF a = Undefined \/ b = Undefined THEN "throw"
  ELSE IF a.len # b.len THEN "throw" ELSE IF a = b THEN "true" ELSE "false"

(***************************************************************************)
(* Merchant registry (built once at start-up, immutable afterwards)        *)
(***************************************************************************)
merchantsByKey ==
  [mA |-> [merchantKey |-> "mA", webhookSecret |-> "kA",
           vivaConfig |-> [clientId |-> "client-A"]],
   mB |-> [merchantKey |-> "mB", webhookSecret |-> "kB",
           vivaConfig |-> [clientId |-> "client-B"]],
   mN |-> [merchantKey |-> "mN", webhookSecret |-> "",
           vivaConfig |-> [clientId |-> "client-N"]]]

\* mutant: an unknown key falls back to a default merchant
getMerchantByKeyFallback(merchantKey) ==
  IF merchantKey \in DOMAIN merchantsByKey
    THEN merchantsByKey[merchantKey] ELSE merchantsByKey["mN"]

getMerchantByKey(merchantKey) ==
  IF merchantKey \in DOMAIN merchantsByKey
    THEN merchantsByKey[merchantKey] ELSE Undefined

\* the MERCHANT_{key}_* variables of one merchant ("" = variable not set)
MerchantEnv(merchantKey, apiKey, clientId, clientSecret) ==
  [merchantKey |-> merchantKey, API_KEY |-> apiKey,
   VIVA_CLIENT_ID |-> clientId, VIVA_CLIENT_SECRET |-> clientSecret]

\* crypto.randomBytes(24).toString('hex') for a merchant without API_KEY:
\* a value no other key equals
RandomApiKey(merchantKey) == [random |-> merchantKey, given |-> ""]

GivenApiKey(apiKey) == [random |-> "", given |-> apiKey]

MapSet(map, key, value) ==
  [k \in DOMAIN map \cup {key} |-> IF k = key THEN value ELSE map[k]]

EmptyRegistry == [byApiKey |-> <<>>, byKey |-> <<>>]

\* loadMerchantConfigs over the merchants found in the environment, in the
\* order their keys were found
RECURSIVE loadMerchantConfigs(_, _)
loadMerchantConfigs(reg, env) ==
  IF env = <<>> THEN reg
  ELSE LET e == Head(env)
           apiKey == IF e.API_KEY # "" THEN GivenApiKey(e.API_KEY)
                     ELSE RandomApiKey(e.merchantKey)
           config == [merchantKey |-> e.merchantKey, apiKey |-> apiKey,
                      clientId |-> e.VIVA_CLIENT_ID]
       IN  IF e.VIVA_CLIENT_ID = "" \/ e.VIVA_CLIENT_SECRET = ""
             THEN loadMerchantConfigs(reg, Tail(env))
             ELSE loadMerchantConfigs(
                    [byApiKey |-> MapSet(reg.byApiKey, apiKey, config),
                     byKey |-> MapSet(reg.byKey, e.merchantKey, config)],
                    Tail(env))

getMerchantByApiKey(reg, apiKey) ==
  IF apiKey \in DOMAIN reg.byApiKey THEN reg.byApiKey[apiKey] ELSE Undefined

\* getMerchantByKey on a registry that was loaded
getMerchantByKeyOf(reg, merchantKey) ==
  IF merchantKey \in DOMAIN reg.byKey THEN reg.byKey[merchantKey] ELSE Undefined

getAllMerchants(reg) == {reg.byKey[k] : k \in DOMAIN reg.byKey}

(***************************************************************************)
(* Order codes, provider payloads, callback configurations                 *)
(***************************************************************************)
\* an order code arrives as a number; the store key is its string form
NumberCode(d) == [form |-> "number", digits |-> d]
String(orderCode) == [form |-> "string", digits |-> orderCode.digits]

OrderCodes == {NumberCode("111"), NumberCode("222")}

EventTypeIds == {1796, 1797, 1798, 1799}

WebhookPayload(eventTypeId, orderCode) ==
  [EventTypeId |-> eventTypeId, EventData |-> [OrderCode |-> orderCode]]

PAYMENT_SUCCESS == "payment.success"
PAYMENT_FAILED == "payment.failed"
PAYMENT_REFUNDED == "payment.refunded"
ORDER_CREATED == "order.created"

CallbackConfig(s, f, w, sec, raw, meta) ==
  [successUrl |-> s, failureUrl |-> f, webhookUrl |-> w, secret |-> sec,
   includeRawPayload |-> raw, metadata |-> meta]

\* the configurations a client registers in the model ("" = field not given)
Configs ==
  { CallbackConfig("", "", "https://a.example/wh", "sO", FALSE, [orderId |-> "ORD-1"]),
    CallbackConfig("https://a.example/ok", "https://a.example/ko",
                   "https://a.example/wh", "", TRUE, Undefined),
    CallbackConfig("", "", "", "sO", TRUE, [orderId |-> "ORD-2"]) }

\* process.env.WEBHOOK_CALLBACK_URL / WEBHOOK_CALLBACK_SECRET, "" when unset
DefaultCallbackSettings ==
  { [url |-> "", secret |-> ""],
    [url |-> "https://default.example/cb", secret |-> "sD"] }

(***************************************************************************)
(* State                                                                   *)
(***************************************************************************)
VARIABLES
  callbackStore,            \* Map<string, CallbackConfig>
  DEFAULT_CALLBACK_URL,     \* read from the environment at module load
  DEFAULT_CALLBACK_SECRET,
  requests,                 \* inbound webhook requests, by arrival number
  outbox                    \* per request, its forwardToUrl calls so far, in order

relayVars ==
  <<callbackStore, DEFAULT_CALLBACK_URL, DEFAULT_CALLBACK_SECRET, requests, outbox>>

VARIABLES
  now,          \* the clock, in whole seconds (Date.now() / 1000)
  service,      \* per merchant: accessToken and tokenExpiry, <<>> for null
  calls         \* getAccessToken calls, by arrival number

tokenVars == <<now, service, calls>>

VARIABLES
  verification  \* the verifySignature calls made directly, with their results

verifyVars == <<verification>>

VARIABLES
  registry,         \* merchantsByApiKey and merchantsByKey as loadMerchantConfigs
                    \* built them, with the environment they were built from
  serviceInstances  \* the merchant keys a VivaWalletService was created for

registryVars == <<registry, serviceInstances>>

VARIABLES
  NODE_ENV      \* process.env.NODE_ENV, "" when unset

envVars == <<NODE_ENV>>

VARIABLES
  orders,        \* the demo store's database.orders: order id -> order
  demoResponse   \* the demo store's answer to its last request

demoVars == <<orders, demoResponse>>

vars == <<relayVars, tokenVars, verifyVars, registryVars, envVars, demoVars>>

Requests == 1..NumRequests

NoResponse == [status |-> 0, received |-> FALSE, error |-> FALSE]

IdleRequest ==
  [pc |-> "idle", method |-> "", providerCall |-> FALSE,
   merchantKey |-> "", signature |-> Undefined,
   body |-> Undefined, response |-> NoResponse, event |-> "",
   orderCode |-> Undefined, config |-> Undefined, todo |-> <<>>,
   providerRequest |-> Undefined, path |-> "", apiKey |-> Undefined]

(***************************************************************************)
(* CallbackStore                                                           *)
(***************************************************************************)
\* mutant: an existing entry is kept (first write wins)
registerCallbackKeepsFirst(store, orderCode, config) ==
  [k \in DOMAIN store \cup {String(orderCode)} |->
     IF k \in DOMAIN store THEN store[k] ELSE config]

registerCallback(store, orderCode, config) ==
  [k \in DOMAIN store \cup {String(orderCode)} |->
     IF k = String(orderCode) THEN config ELSE store[k]]

\* mutant: the key is looked up as given
getCallbackRawKey(store, orderCode) ==
  IF orderCode \in DOMAIN store THEN store[orderCode] ELSE Undefined

getCallback(store, orderCode) ==
  IF String(orderCode) \in DOMAIN store
    THEN store[String(orderCode)] ELSE Undefined

removeCallback(store, orderCode) ==
  [k \in DOMAIN store \ {String(orderCode)} |-> store[k]]

(***************************************************************************)
(* Inbound signature verification                                          *)
(***************************************************************************)
\* JSON.stringify of a parsed request body (no undefined members)
JSONstringifyBody(body) == [json |-> body]

\* "true" | "false" | "throw"
verifySignature(payload, signature, secret) ==
  IF secret = "" THEN "true"
  ELSE timingSafeEqual(signature, HmacSha256Hex(secret, payload))

\* mutant: every path verifies against one process-wide secret
SignatureGateGlobalSecret(merchant, signature, body) ==
  IF merchant.webhookSecret # "" /\ Truthy(signature)
    THEN LET v == verifySignature(JSONstringifyBody(body), signature,
                                  merchantsByKey["mA"].webhookSecret)
         IN  IF v = "throw" THEN "throw"
             ELSE IF v = "false" THEN "reject" ELSE "pass"
    ELSE "pass"

\* the gate of the POST handler: "pass" | "reject" | "throw"
SignatureGate(merchant, signature, body) ==
  IF merchant.webhookSecret # "" /\ Truthy(signature)
    THEN LET v == verifySignature(JSONstringifyBody(body), signature,
                                  merchant.webhookSecret)
         IN  IF v = "throw" THEN "throw"
             ELSE IF v = "false" THEN "reject" ELSE "pass"
    ELSE "pass"

\* verifySignature called on its own
VerifySignature(payload, signature, secret) ==
  /\ verification' =
       <<[payload |-> payload, signature |-> signature, secret |-> secret,
          result |-> verifySignature(payload, signature, secret)]>>
  /\ UNCHANGED <<relayVars, tokenVars, registryVars, envVars, demoVars>>

InitVerify == verification = <<>>

\* start-up: loadMerchantConfigs() on the process environment
LoadMerchantConfigs(env) ==
  /\ registry' = [env |-> env, maps |-> loadMerchantConfigs(EmptyRegistry, env)]
  /\ UNCHANGED <<relayVars, tokenVars, verifyVars, serviceInstances, envVars, demoVars>>

InitRegistry ==
  /\ registry = [env |-> <<>>, maps |-> EmptyRegistry]
  /\ serviceInstances = {}

(***************************************************************************)
(* Outbound delivery                                                       *)
(***************************************************************************)
\* config?.field for the string fields: "" when config is undefined
Opt(config, field) == IF config = Undefined THEN "" ELSE config[field]

OptMetadata(config) == IF config = Undefined THEN Undefined ELSE config.metadata

OptRaw(config, rawPayload) ==
  IF config # Undefined /\ config.includeRawPayload THEN rawPayload ELSE Undefined

WebhookForwardPayload(event, orderCode, config, rawPayload) ==
  [event |-> event,
   data |-> [orderCode |-> orderCode, metadata |-> OptMetadata(config)],
   raw |-> OptRaw(config, rawPayload)]

\* JSON.stringify of a WebhookForwardPayload: undefined members are dropped
JSONstringify(payload) ==
  ("event" :> payload.event)
  @@ ("data" :> (("orderCode" :> payload.data.orderCode)
                 @@ (IF payload.data.metadata = Undefined THEN <<>>
                     ELSE ("metadata" :> payload.data.metadata))))
  @@ (IF payload.raw = Undefined THEN <<>> ELSE ("raw" :> payload.raw))

\* mutant: the digest is computed without the secret
generateSignatureUnkeyed(payload, secret) == HmacSha256Hex("", payload)

generateSignature(payload, secret) == HmacSha256Hex(secret, payload)

Dest(url, secret) == [url |-> url, secret |-> secret]

\* mutant: the signature headers are sent whatever the secret, and the
\* second one without its prefix
forwardToUrlSignsAlways(url, payload, secret) ==
  LET payloadString == JSONstringify(payload)
      signature == generateSignature(payloadString, secret)
  IN [url |-> url,
      headers |->
        [ContentType |-> "application/json",
         XWebhookEvent |-> payload.event,
         XWebhookSignature |-> signature,
         XWebhookSignature256 |-> [prefix |-> "", hex |-> signature]],
      body |-> JSONstringify(payload)]

\* the HTTP request forwardToUrl hands to axios.post
forwardToUrl(url, payload, secret) ==
  LET payloadString == JSONstringify(payload)
      signed == secret # ""
      signature == generateSignature(payloadString, secret)
  IN [url |-> url,
      headers |->
        [ContentType |-> "application/json",
         XWebhookEvent |-> payload.event,
         XWebhookSignature |-> IF signed THEN signature ELSE Undefined,
         XWebhookSignature256 |->
           IF signed THEN [prefix |-> "sha256=", hex |-> signature] ELSE Undefined],
      body |-> JSONstringify(payload)]

\* mutant: an event whose order has no entry is dropped
forwardPaymentSuccessDropsAbsent(config, defUrl, defSecret) ==
  IF config = Undefined THEN <<>>
  ELSE (IF config.successUrl # ""
          THEN <<Dest(config.successUrl, config.secret)>> ELSE <<>>)
       \o (IF config.webhookUrl # ""
             THEN <<Dest(config.webhookUrl, config.secret)>> ELSE <<>>)
       \o (IF defUrl # "" /\ config.successUrl = "" /\ config.webhookUrl = ""
             THEN <<Dest(defUrl, defSecret)>> ELSE <<>>)

\* destinations in the order the forwarder awaits them
forwardPaymentSuccess(config, defUrl, defSecret) ==
  (IF Opt(config, "successUrl") # "" 
     THEN <<Dest(config.successUrl, config.secret)>> ELSE <<>>)
  \o (IF Opt(config, "webhookUrl") # ""
        THEN <<Dest(config.webhookUrl, config.secret)>> ELSE <<>>)
  \o (IF defUrl # "" /\ Opt(config, "successUrl") = "" /\ Opt(config, "webhookUrl") = ""
        THEN <<Dest(defUrl, defSecret)>> ELSE <<>>)

\* mutant: the failure forwarder also notifies the successUrl
forwardPaymentFailedAlsoSuccessUrl(config, defUrl, defSecret) ==
  (IF Opt(config, "successUrl") # ""
     THEN <<Dest(config.successUrl, config.secret)>> ELSE <<>>)
  \o (IF Opt(config, "failureUrl") # ""
        THEN <<Dest(config.failureUrl, config.secret)>> ELSE <<>>)
  \o (IF Opt(config, "webhookUrl") # ""
        THEN <<Dest(config.webhookUrl, config.secret)>> ELSE <<>>)
  \o (IF defUrl # "" /\ Opt(config, "failureUrl") = "" /\ Opt(config, "webhookUrl") = ""
        THEN <<Dest(defUrl, defSecret)>> ELSE <<>>)

forwardPaymentFailed(config, defUrl, defSecret) ==
  (IF Opt(config, "failureUrl") # "" 
     THEN <<Dest(config.failureUrl, config.secret)>> ELSE <<>>)
  \o (IF Opt(config, "webhookUrl") # ""
        THEN <<Dest(config.webhookUrl, config.secret)>> ELSE <<>>)
  \o (IF defUrl # "" /\ Opt(config, "failureUrl") = "" /\ Opt(config, "webhookUrl") = ""
        THEN <<Dest(defUrl, defSecret)>> ELSE <<>>)

\* mutant: the default URL is signed with the registration's secret
forwardPaymentRefundedOneSecret(config, defUrl, defSecret) ==
  (IF Opt(config, "webhookUrl") # ""
     THEN <<Dest(config.webhookUrl, config.secret)>> ELSE <<>>)
  \o (IF defUrl # "" THEN <<Dest(defUrl, Opt(config, "secret"))>> ELSE <<>>)

forwardPaymentRefunded(config, defUrl, defSecret) ==
  (IF Opt(config, "webhookUrl") # ""
     THEN <<Dest(config.webhookUrl, config.secret)>> ELSE <<>>)
  \o (IF defUrl # "" THEN <<Dest(defUrl, defSecret)>> ELSE <<>>)

forwardOrderCreated(config, defUrl, defSecret) ==
  (IF Opt(config, "webhookUrl") # ""
     THEN <<Dest(config.webhookUrl, config.secret)>> ELSE <<>>)
  \o (IF defUrl # "" THEN <<Dest(defUrl, defSecret)>> ELSE <<>>)

\* mutant: the cases of failed and reversed transactions are exchanged
EventOfSwapped(eventTypeId) ==
  CASE eventTypeId = 1796 -> PAYMENT_SUCCESS
    [] eventTypeId = 1797 -> PAYMENT_FAILED
    [] eventTypeId = 1798 -> PAYMENT_REFUNDED
    [] OTHER -> ""

\* the switch on payload.EventTypeId: the canonical event, "" when unhandled
EventOf(eventTypeId) ==
  CASE eventTypeId = 1796 -> PAYMENT_SUCCESS
    [] eventTypeId = 1798 -> PAYMENT_FAILED
    [] eventTypeId = 1797 -> PAYMENT_REFUNDED
    [] OTHER -> ""

Destinations(event, config, defUrl, defSecret) ==
  CASE event = PAYMENT_SUCCESS -> forwardPaymentSuccess(config, defUrl, defSecret)
    [] event = PAYMENT_FAILED -> forwardPaymentFailed(config, defUrl, defSecret)
    [] event = PAYMENT_REFUNDED -> forwardPaymentRefunded(config, defUrl, defSecret)
    [] OTHER -> <<>>

\* mutant: the entry is never consumed
SettleStoreKeepsEntry(store, event, orderCode) == store

\* mutant: the entry is consumed whatever the event
SettleStoreRemovesAlways(store, event, orderCode) == removeCallback(store, orderCode)

\* mutant: a refund consumes the entry as a success does
SettleStoreRemovesOnRefund(store, event, orderCode) ==
  IF event \in {PAYMENT_SUCCESS, PAYMENT_REFUNDED}
    THEN removeCallback(store, orderCode) ELSE store

\* mutant: a failed payment re-arms the registration for a retry
SettleStoreRearmsOnFailure(store, event, orderCode) ==
  IF event = PAYMENT_SUCCESS THEN removeCallback(store, orderCode)
  ELSE IF event = PAYMENT_FAILED
    THEN registerCallback(store, orderCode,
           CallbackConfig("", "", "https://a.example/wh", "sO", FALSE, Undefined))
    ELSE store

\* what the forwarder does to the store once its last delivery has returned
SettleStore(store, event, orderCode) ==
  IF event = PAYMENT_SUCCESS THEN removeCallback(store, orderCode) ELSE store

Ack == [status |-> 200, received |-> TRUE, error |-> FALSE]
\* mutant: the catch block answers 500
AckProcessingErrorAs500 == [status |-> 500, received |-> FALSE, error |-> TRUE]

AckProcessingError == [status |-> 200, received |-> TRUE, error |-> TRUE]
InvalidSignature == [status |-> 401, received |-> FALSE, error |-> TRUE]
MerchantNotFound == [status |-> 404, received |-> FALSE, error |-> TRUE]
\* POST /orders: 201 with the order code and checkout URL
OrderCreated == [status |-> 201, received |-> FALSE, error |-> FALSE]
\* POST /test-simulate: 200 with success and forwarded
Simulated == [status |-> 200, received |-> FALSE, error |-> FALSE]
\* the debug endpoints in production
Forbidden == [status |-> 403, received |-> FALSE, error |-> TRUE]
\* POST /test-simulate without an order code
OrderCodeRequired == [status |-> 400, received |-> FALSE, error |-> TRUE]
\* GET /callbacks/:orderCode: the redacted registration, or hasCallback false
CallbackInfo == [status |-> 200, received |-> FALSE, error |-> FALSE]
\* GET: the provider's verification data relayed, or "Verification failed"
VerificationData == [status |-> 200, received |-> FALSE, error |-> FALSE]
VerificationFailed == [status |-> 500, received |-> FALSE, error |-> TRUE]

(***************************************************************************)
(* Actions of the webhook relay                                            *)
(***************************************************************************)
\* the signature header values a sender can supply with a body: none, the
\* empty string, three characters of text, and the digests of the body
\* under each tenant secret
SignatureHeaders(body) ==
  {Undefined, OtherText(0), OtherText(3)}
  \cup {HmacSha256Hex(k, JSONstringifyBody(body)) : k \in {"kA", "kB"}}

\* mutant: the request is answered when the first POST is issued
ContinueAcksEarly(r, req, box) ==
  IF req.todo = <<>>
    THEN /\ callbackStore' = SettleStore(callbackStore, req.event, req.orderCode)
         /\ requests' = [requests EXCEPT ![r] =
                           [req EXCEPT !.pc = "done",
                                       !.response =
                                          IF req.event = ORDER_CREATED THEN OrderCreated
                                          ELSE IF req.method = "SIMULATE" THEN Simulated
                                          ELSE Ack]]
         /\ outbox' = box
    ELSE /\ callbackStore' = callbackStore
         /\ requests' = [requests EXCEPT ![r] =
                           [req EXCEPT !.pc = "awaiting", !.todo = Tail(req.todo),
                                       !.response = Ack]]
         /\ outbox' = [box EXCEPT ![r] =
                         Append(@, [url |-> Head(req.todo).url,
                                    secret |-> Head(req.todo).secret,
                                    outcome |-> "pending"])]

\* mutant: the store is settled when the first POST is issued
ContinueSettlesEarly(r, req, box) ==
  IF req.todo = <<>>
    THEN /\ callbackStore' = SettleStore(callbackStore, req.event, req.orderCode)
         /\ requests' = [requests EXCEPT ![r] =
                           [req EXCEPT !.pc = "done",
                                       !.response =
                                          IF req.event = ORDER_CREATED THEN OrderCreated
                                          ELSE IF req.method = "SIMULATE" THEN Simulated
                                          ELSE Ack]]
         /\ outbox' = box
    ELSE /\ callbackStore' = SettleStore(callbackStore, req.event, req.orderCode)
         /\ requests' = [requests EXCEPT ![r] =
                           [req EXCEPT !.pc = "awaiting", !.todo = Tail(req.todo)]]
         /\ outbox' = [box EXCEPT ![r] =
                         Append(@, [url |-> Head(req.todo).url,
                                    secret |-> Head(req.todo).secret,
                                    outcome |-> "pending"])]

\* run the forwarder of request r from its current position to its next
\* suspension: issue the next POST, or settle the store and acknowledge
Continue(r, req, box) ==
  IF req.todo = <<>>
    THEN /\ callbackStore' = SettleStore(callbackStore, req.event, req.orderCode)
         /\ requests' = [requests EXCEPT ![r] =
                           [req EXCEPT !.pc = "done",
                                       !.response =
                                          IF req.event = ORDER_CREATED THEN OrderCreated
                                          ELSE IF req.method = "SIMULATE" THEN Simulated
                                          ELSE Ack]]
         /\ outbox' = box
    ELSE /\ callbackStore' = callbackStore
         /\ requests' = [requests EXCEPT ![r] =
                           [req EXCEPT !.pc = "awaiting", !.todo = Tail(req.todo)]]
         /\ outbox' = [box EXCEPT ![r] =
                         Append(@, [url |-> Head(req.todo).url,
                                    secret |-> Head(req.todo).secret,
                                    outcome |-> "pending"])]

Respond(r, req, response) ==
  /\ requests' = [requests EXCEPT ![r] =
                    [req EXCEPT !.pc = "done", !.response = response]]
  /\ UNCHANGED <<callbackStore, outbox>>

\* POST /api/webhooks/viva/:merchantKey, up to its first suspension
ReceiveWebhook(r, merchantKey, signature, body) ==
  /\ requests[r].pc = "idle"
  /\ r > 1 => requests[r - 1].pc # "idle"
  /\ LET merchant == getMerchantByKey(merchantKey)
         req == [requests[r] EXCEPT !.method = "POST",
                                    !.merchantKey = merchantKey,
                                    !.signature = signature, !.body = body]
     IN  IF merchant = Undefined
           THEN Respond(r, req, MerchantNotFound)
           ELSE LET gate == SignatureGate(merchant, signature, body)
                    event == EventOf(body.EventTypeId)
                    \* the event handlers read EventData.TransactionId first: a
                    \* body without EventData makes them throw
                    orderCode == body.EventData.OrderCode
                    config == getCallback(callbackStore, orderCode)
                IN  CASE gate = "reject" -> Respond(r, req, InvalidSignature)
                      [] gate = "throw" -> Respond(r, req, AckProcessingError)
                      [] gate = "pass" /\ event = "" -> Respond(r, req, Ack)
                      [] gate = "pass" /\ event # "" /\ body.EventData = Undefined ->
                           Respond(r, req, AckProcessingError)
                      [] OTHER ->
                           Continue(r,
                             [req EXCEPT
                                !.event = event, !.orderCode = orderCode,
                                !.config = config,
                                !.todo = Destinations(event, config,
                                           DEFAULT_CALLBACK_URL,
                                           DEFAULT_CALLBACK_SECRET)],
                             outbox)
  /\ UNCHANGED <<DEFAULT_CALLBACK_URL, DEFAULT_CALLBACK_SECRET, tokenVars, verifyVars, registryVars, envVars, demoVars>>

\* the POST request r is waiting for returns (ok) or fails: non-2xx
\* response, network error or the 10 s timeout
PendingPost(r) == Len(outbox[r])

\* mutant: a failed delivery ends the forwarder run
DeliveryDoneAbortsOnFailure(r, ok) ==
  /\ requests[r].pc = "awaiting"
  /\ Continue(r, [requests[r] EXCEPT !.todo = IF ok THEN @ ELSE <<>>],
              [outbox EXCEPT ![r][PendingPost(r)].outcome =
                               IF ok THEN "delivered" ELSE "failed"])
  /\ UNCHANGED <<DEFAULT_CALLBACK_URL, DEFAULT_CALLBACK_SECRET, tokenVars, verifyVars, registryVars, envVars, demoVars>>

DeliveryDone(r, ok) ==
  /\ requests[r].pc = "awaiting"
  /\ Continue(r, requests[r],
              [outbox EXCEPT ![r][PendingPost(r)].outcome =
                               IF ok THEN "delivered" ELSE "failed"])
  /\ UNCHANGED <<DEFAULT_CALLBACK_URL, DEFAULT_CALLBACK_SECRET, tokenVars, verifyVars, registryVars, envVars, demoVars>>

\* GET /api/webhooks/viva/:merchantKey, up to its first suspension: the
\* request to the provider's config/token endpoint with the merchant's
\* Basic credentials
VerifyWebhookUrl(r, merchantKey) ==
  /\ requests[r].pc = "idle"
  /\ r > 1 => requests[r - 1].pc # "idle"
  /\ LET merchant == getMerchantByKey(merchantKey)
         req == [requests[r] EXCEPT !.method = "GET", !.merchantKey = merchantKey]
     IN  IF merchant = Undefined
           THEN Respond(r, req, MerchantNotFound)
           ELSE /\ requests' = [requests EXCEPT ![r] =
                                  [req EXCEPT !.pc = "verifying",
                                              !.providerCall = TRUE]]
                /\ UNCHANGED <<callbackStore, outbox>>
  /\ UNCHANGED <<DEFAULT_CALLBACK_URL, DEFAULT_CALLBACK_SECRET, tokenVars, verifyVars, registryVars, envVars, demoVars>>

\* the provider answers the verification request, or the request fails
VerificationDone(r, ok) ==
  /\ requests[r].pc = "verifying"
  /\ Respond(r, requests[r], IF ok THEN VerificationData ELSE VerificationFailed)
  /\ UNCHANGED <<DEFAULT_CALLBACK_URL, DEFAULT_CALLBACK_SECRET, tokenVars, verifyVars, registryVars, envVars, demoVars>>

\* POST /orders from the return of createPaymentOrder (the provider's order
\* code) with a callback configuration to the next suspension:
\* registerCallback, then forwardOrderCreated up to its first POST
\* mutant: the order.created delivery is started without the registration
RegisterAndNotifyUnregistered(r, request, orderCode, callback) ==
  LET req == [request EXCEPT
                !.event = ORDER_CREATED, !.orderCode = orderCode,
                !.config = callback,
                !.todo = forwardOrderCreated(callback, DEFAULT_CALLBACK_URL,
                                             DEFAULT_CALLBACK_SECRET)]
  IN  IF req.todo = <<>>
        THEN /\ callbackStore' = registerCallback(callbackStore, orderCode, callback)
             /\ requests' = [requests EXCEPT ![r] =
                               [req EXCEPT !.pc = "done", !.response = OrderCreated]]
             /\ outbox' = outbox
        ELSE /\ callbackStore' = callbackStore
             /\ requests' = [requests EXCEPT ![r] =
                               [req EXCEPT !.pc = "awaiting", !.todo = Tail(req.todo)]]
             /\ outbox' = [outbox EXCEPT ![r] =
                             Append(@, [url |-> Head(req.todo).url,
                                        secret |-> Head(req.todo).secret,
                                        outcome |-> "pending"])]

RegisterAndNotify(r, request, orderCode, callback) ==
  LET store == registerCallback(callbackStore, orderCode, callback)
      req == [request EXCEPT
                !.event = ORDER_CREATED, !.orderCode = orderCode,
                !.config = callback,
                !.todo = forwardOrderCreated(callback, DEFAULT_CALLBACK_URL,
                                             DEFAULT_CALLBACK_SECRET)]
  IN  IF req.todo = <<>>
        THEN /\ callbackStore' = store
             /\ requests' = [requests EXCEPT ![r] =
                               [req EXCEPT !.pc = "done", !.response = OrderCreated]]
             /\ outbox' = outbox
        ELSE /\ callbackStore' = store
             /\ requests' = [requests EXCEPT ![r] =
                               [req EXCEPT !.pc = "awaiting", !.todo = Tail(req.todo)]]
             /\ outbox' = [outbox EXCEPT ![r] =
                             Append(@, [url |-> Head(req.todo).url,
                                        secret |-> Head(req.todo).secret,
                                        outcome |-> "pending"])]

CreateOrder(r, orderCode, callback) ==
  /\ requests[r].pc = "idle"
  /\ r > 1 => requests[r - 1].pc # "idle"
  /\ RegisterAndNotify(r, [requests[r] EXCEPT !.method = "ORDER",
                                              !.providerCall = TRUE],
                       orderCode, callback)
  /\ UNCHANGED <<DEFAULT_CALLBACK_URL, DEFAULT_CALLBACK_SECRET, tokenVars, verifyVars, registryVars, envVars, demoVars>>

\* registerCallback as called by order creation
RegisterCallback(orderCode, config) ==
  /\ callbackStore' = registerCallback(callbackStore, orderCode, config)
  /\ UNCHANGED <<DEFAULT_CALLBACK_URL, DEFAULT_CALLBACK_SECRET, requests, outbox,
                 tokenVars, verifyVars, registryVars, envVars, demoVars>>

\* mutant: the debug endpoints are never disabled
IsProductionNever(env) == FALSE

\* process.env.NODE_ENV === "production"
IsProduction(env) == env = "production"

\* Number(orderCode) of a numeric order code or numeric string
Number(orderCode) == [form |-> "number", digits |-> orderCode.digits]

\* mutant: the codes of refund and failure are exchanged
MockEventTypeIdSwapped(eventType) ==
  IF eventType = "success" THEN 1796
  ELSE IF eventType = "refund" THEN 1798 ELSE 1797

\* the EventTypeId of the mock payload
MockEventTypeId(eventType) ==
  IF eventType = "success" THEN 1796
  ELSE IF eventType = "refund" THEN 1797 ELSE 1798

\* POST /api/webhooks/test-simulate, up to its first suspension
TestSimulate(r, orderCode, eventType) ==
  /\ requests[r].pc = "idle"
  /\ r > 1 => requests[r - 1].pc # "idle"
  /\ LET req == [requests[r] EXCEPT !.method = "SIMULATE"]
     IN  IF IsProduction(NODE_ENV)
           THEN Respond(r, req, Forbidden)
           ELSE IF orderCode = Undefined
             THEN Respond(r, req, OrderCodeRequired)
             ELSE LET mockPayload == WebhookPayload(MockEventTypeId(eventType),
                                                    Number(orderCode))
                      event == EventOf(mockPayload.EventTypeId)
                      config == getCallback(callbackStore, mockPayload.EventData.OrderCode)
                  IN  Continue(r,
                        [req EXCEPT
                           !.body = mockPayload,
                           !.event = event,
                           !.orderCode = mockPayload.EventData.OrderCode,
                           !.config = config,
                           !.todo = Destinations(event, config,
                                      DEFAULT_CALLBACK_URL,
                                      DEFAULT_CALLBACK_SECRET)],
                        outbox)
  /\ UNCHANGED <<DEFAULT_CALLBACK_URL, DEFAULT_CALLBACK_SECRET, tokenVars, verifyVars, registryVars, envVars, demoVars>>

\* GET /api/webhooks/callbacks/:orderCode: the registration read out for
\* the order code of the path (a string)
CallbackIntrospection(r, orderCode) ==
  /\ requests[r].pc = "idle"
  /\ r > 1 => requests[r - 1].pc # "idle"
  /\ LET req == [requests[r] EXCEPT !.method = "INTROSPECT"]
     IN  IF IsProduction(NODE_ENV)
           THEN Respond(r, req, Forbidden)
           ELSE Respond(r, [req EXCEPT !.orderCode = orderCode,
                                       !.config = getCallback(callbackStore, orderCode)],
                        CallbackInfo)
  /\ UNCHANGED <<DEFAULT_CALLBACK_URL, DEFAULT_CALLBACK_SECRET, tokenVars, verifyVars, registryVars, envVars, demoVars>>

\* removeCallback called on its own
RemoveCallback(orderCode) ==
  /\ callbackStore' = removeCallback(callbackStore, orderCode)
  /\ UNCHANGED <<DEFAULT_CALLBACK_URL, DEFAULT_CALLBACK_SECRET, requests, outbox,
                 tokenVars, verifyVars, registryVars, envVars, demoVars>>

InitRelay ==
  /\ callbackStore = <<>>
  /\ \E d \in DefaultCallbackSettings :
       /\ DEFAULT_CALLBACK_URL = d.url
       /\ DEFAULT_CALLBACK_SECRET = d.secret
  /\ requests = [r \in Requests |-> IdleRequest]
  /\ outbox = [r \in Requests |-> <<>>]

\* the payload constant of the forwarder run of request r
Payload(r) ==
  IF requests[r].event = ORDER_CREATED
    THEN [event |-> ORDER_CREATED,
          data |-> [orderCode |-> requests[r].orderCode,
                    metadata |-> OptMetadata(requests[r].config)],
          raw |-> Undefined]
    ELSE WebhookForwardPayload(requests[r].event, requests[r].orderCode,
                               requests[r].config, requests[r].body)

\* the i-th HTTP request sent for request r
Sent(r, i) == forwardToUrl(outbox[r][i].url, Payload(r), outbox[r][i].secret)

(***************************************************************************)
(* OAuth2 token cache of VivaWalletService (one instance per merchant)     *)
(***************************************************************************)
\* seconds subtracted from expires_in when the expiry is stored
ExpiryMargin == 300

\* merchants whose service instance is exercised
Tenants == {"mA", "mB"}

\* the expires_in values the provider answers with
ExpiresIn == {ExpiryMargin - 1, ExpiryMargin, ExpiryMargin + 1, ExpiryMargin + 2}

Calls == 1..NumCalls

IdleCall ==
  [pc |-> "idle", tenant |-> "", calledAt |-> 0, seen |-> <<>>,
   exchange |-> FALSE, clientId |-> "", issuedAt |-> 0, expires_in |-> 0,
   result |-> <<>>]

\* mutant: one service instance serves every merchant
getOrCreateServiceShared(merchantKey) == "mA"

\* the VivaWalletService instance of a merchant: serviceInstances holds one
\* per merchantKey, created on first use with no token; an instance is
\* named by its key
getOrCreateService(merchantKey) == merchantKey

\* the configuration an instance was constructed with
\* (new VivaWalletService(config.vivaConfig))
InstanceConfig(merchantKey) == merchantsByKey[merchantKey].vivaConfig

\* mutant: the cache is never used
CachedTokenValidNever(svc, t) == FALSE

\* mutant: the comparison with the expiry is inverted
CachedTokenValidInverted(svc, t) ==
  /\ svc.accessToken # <<>>
  /\ svc.tokenExpiry # <<>>
  /\ t > svc.tokenExpiry[1]

\* the guard of getAccessToken: a cached token that is still valid
CachedTokenValid(svc, t) ==
  /\ svc.accessToken # <<>>
  /\ svc.tokenExpiry # <<>>
  /\ t < svc.tokenExpiry[1]

\* getAccessToken up to its first suspension: return the cached token, or
\* send the client-credentials exchange and wait for the answer
GetAccessToken(c, tenant) ==
  /\ calls[c].pc = "idle"
  /\ c > 1 => calls[c - 1].pc # "idle"
  /\ LET this == getOrCreateService(tenant)
         call == [calls[c] EXCEPT !.tenant = tenant, !.calledAt = now,
                                  !.seen = <<service[this]>>]
     IN  IF CachedTokenValid(service[this], now)
           THEN calls' = [calls EXCEPT ![c] =
                            [call EXCEPT !.pc = "returned",
                                         !.result = service[this].accessToken]]
           ELSE calls' = [calls EXCEPT ![c] =
                            [call EXCEPT !.pc = "fetching", !.exchange = TRUE,
                                         !.clientId = InstanceConfig(tenant).clientId]]
  /\ serviceInstances' = serviceInstances \cup {getOrCreateService(tenant)}
  /\ UNCHANGED <<now, service, relayVars, verifyVars, registry, envVars, demoVars>>

\* mutant: the expiry is stored without the safety margin
ExchangeSucceedsNoMargin(c, expires_in) ==
  /\ calls[c].pc = "fetching"
  /\ service' = [service EXCEPT ![getOrCreateService(calls[c].tenant)] =
                   [accessToken |-> <<c>>, tokenExpiry |-> <<now + expires_in>>]]
  /\ calls' = [calls EXCEPT ![c] =
                 [@ EXCEPT !.pc = "returned", !.issuedAt = now,
                           !.expires_in = expires_in, !.result = <<c>>]]
  /\ UNCHANGED <<now, relayVars, verifyVars, registryVars, envVars, demoVars>>

\* mutant: a refresh replaces the token and leaves a stored expiry in place
ExchangeSucceedsKeepsExpiry(c, expires_in) ==
  /\ calls[c].pc = "fetching"
  /\ service' = [service EXCEPT ![getOrCreateService(calls[c].tenant)] =
                   [accessToken |-> <<c>>,
                    tokenExpiry |->
                      IF @.tokenExpiry # <<>> THEN @.tokenExpiry
                      ELSE <<now + (expires_in - ExpiryMargin)>>]]
  /\ calls' = [calls EXCEPT ![c] =
                 [@ EXCEPT !.pc = "returned", !.issuedAt = now,
                           !.expires_in = expires_in, !.result = <<c>>]]
  /\ UNCHANGED <<now, relayVars, verifyVars, registryVars, envVars, demoVars>>

\* the provider answers the exchange of call c; the token it issues is
\* distinct from every other token (numbered by the call)
ExchangeSucceeds(c, expires_in) ==
  /\ calls[c].pc = "fetching"
  /\ service' = [service EXCEPT ![getOrCreateService(calls[c].tenant)] =
                   [accessToken |-> <<c>>,
                    tokenExpiry |-> <<now + (expires_in - ExpiryMargin)>>]]
  /\ calls' = [calls EXCEPT ![c] =
                 [@ EXCEPT !.pc = "returned", !.issuedAt = now,
                           !.expires_in = expires_in, !.result = <<c>>]]
  /\ UNCHANGED <<now, relayVars, verifyVars, registryVars, envVars, demoVars>>

\* mutant: a failed exchange also drops the cached record
ExchangeFailsClearsCache(c) ==
  /\ calls[c].pc = "fetching"
  /\ calls' = [calls EXCEPT ![c] = [@ EXCEPT !.pc = "threw"]]
  /\ service' = [service EXCEPT ![getOrCreateService(calls[c].tenant)] =
                   [accessToken |-> <<>>, tokenExpiry |-> <<>>]]
  /\ UNCHANGED <<now, relayVars, verifyVars, registryVars, envVars, demoVars>>

\* the exchange is rejected or the network fails: handleError, then rethrow
ExchangeFails(c) ==
  /\ calls[c].pc = "fetching"
  /\ calls' = [calls EXCEPT ![c] = [@ EXCEPT !.pc = "threw"]]
  /\ UNCHANGED <<now, service, relayVars, verifyVars, registryVars, envVars, demoVars>>

Tick ==
  /\ now < MaxTime
  /\ now' = now + 1
  /\ UNCHANGED <<service, calls, relayVars, verifyVars, registryVars, envVars, demoVars>>

InitToken ==
  /\ now = 0
  /\ service = [t \in Tenants |-> [accessToken |-> <<>>, tokenExpiry |-> <<>>]]
  /\ calls = [c \in Calls |-> IdleCall]

(***************************************************************************)
(* POST /orders                                                            *)
(***************************************************************************)
MinAmount == 30
MaxDescriptorLength == 13
MaxCardTokens == 10
MaxInstallments == 36

\* a request body of POST /orders; an optional number is <<>> when the field
\* is not given and <<n>> when it is, an optional string "" or Undefined
OrderBody(amount, isCardVerification, dynamicDescriptor, cardTokens, maxInstallments, stateId, urlFail, callback) ==
  [amount |-> amount, isCardVerification |-> isCardVerification,
   dynamicDescriptor |-> dynamicDescriptor, cardTokens |-> cardTokens,
   maxInstallments |-> maxInstallments, stateId |-> stateId,
   urlFail |-> urlFail, callback |-> callback]

\* mutant: the callback stays in the order data
OrderDataKeepsCallback(body) == body

\* const { callback, ...orderData } = req.body
OrderData(body) == [k \in DOMAIN body \ {"callback"} |-> body[k]]

\* the validations of POST /orders: TRUE when one of them answers 400
ValidationFails(orderRequest) ==
  \/ IF orderRequest.isCardVerification
       THEN orderRequest.amount # <<0>>
       ELSE \/ orderRequest.amount \in {<<>>, <<0>>}
            \/ orderRequest.amount[1] < MinAmount
  \/ /\ Truthy(orderRequest.dynamicDescriptor)
     /\ orderRequest.dynamicDescriptor.len > MaxDescriptorLength
  \/ Len(orderRequest.cardTokens) > MaxCardTokens
  \/ /\ orderRequest.maxInstallments # <<>>
     /\ \/ orderRequest.maxInstallments[1] < 1
        \/ orderRequest.maxInstallments[1] > MaxInstallments
  \/ orderRequest.stateId # <<>> /\ orderRequest.urlFail = ""
  \/ orderRequest.urlFail # "" /\ orderRequest.stateId = <<>>

BadRequest == [status |-> 400, received |-> FALSE, error |-> TRUE]
OrderFailed == [status |-> 500, received |-> FALSE, error |-> TRUE]

\* the service instance the order routes call
vivaWalletService == getOrCreateService("mA")

\* createPaymentOrder after getAccessToken: the POST of the order request
\* to the provider's checkout/v2/orders
PostToProvider(r, req) ==
  /\ requests' = [requests EXCEPT ![r] =
                    [req EXCEPT !.pc = "creating", !.providerCall = TRUE,
                                !.providerRequest = OrderData(req.body)]]
  /\ UNCHANGED <<callbackStore, outbox>>

\* POST /orders up to its first suspension: the validations, then
\* createPaymentOrder up to the token exchange or, with a cached token, up
\* to the provider request
OrdersHandler(r, request, body) ==
  LET req == [request EXCEPT !.method = "ORDER", !.body = body]
      orderRequest == OrderData(body)
  IN  IF ValidationFails(orderRequest)
        THEN Respond(r, req, BadRequest)
        ELSE IF CachedTokenValid(service[vivaWalletService], now)
          THEN PostToProvider(r, req)
          ELSE /\ requests' = [requests EXCEPT ![r] =
                                 [req EXCEPT !.pc = "token"]]
               /\ UNCHANGED <<callbackStore, outbox>>

PostOrders(r, body) ==
  /\ requests[r].pc = "idle"
  /\ r > 1 => requests[r - 1].pc # "idle"
  /\ OrdersHandler(r, requests[r], body)
  /\ UNCHANGED <<DEFAULT_CALLBACK_URL, DEFAULT_CALLBACK_SECRET, tokenVars, verifyVars, registryVars, envVars, demoVars>>

\* the token exchange of createPaymentOrder returns: the token is cached and
\* the order request sent, or the error is rethrown to the route's catch
OrderTokenDone(r, ok, expires_in) ==
  /\ requests[r].pc = "token"
  /\ IF ok
       THEN /\ service' = [service EXCEPT ![vivaWalletService] =
                             [accessToken |-> <<NumCalls + r>>,
                              tokenExpiry |-> <<now + (expires_in - ExpiryMargin)>>]]
            /\ PostToProvider(r, requests[r])
       ELSE /\ service' = service
            /\ Respond(r, requests[r], OrderFailed)
  /\ UNCHANGED <<DEFAULT_CALLBACK_URL, DEFAULT_CALLBACK_SECRET, now, calls, verifyVars, registryVars, envVars, demoVars>>

\* the provider answers the order request with an order code, or the
\* request fails (handleError, rethrow, the route's catch answers 500)
OrderPlaced(r, ok, orderCode) ==
  /\ requests[r].pc = "creating"
  /\ LET callback == requests[r].body.callback
     IN  IF ~ok
           THEN Respond(r, requests[r], OrderFailed)
           ELSE IF callback # Undefined
             THEN RegisterAndNotify(r, requests[r], orderCode, callback)
             ELSE Respond(r, [requests[r] EXCEPT !.orderCode = orderCode],
                          OrderCreated)
  /\ UNCHANGED <<DEFAULT_CALLBACK_URL, DEFAULT_CALLBACK_SECRET, tokenVars, verifyVars, registryVars, envVars, demoVars>>

(***************************************************************************)
(* API-key authentication of /api/payments and /api/wallets                *)
(***************************************************************************)
Unauthorized == [status |-> 401, received |-> FALSE, error |-> TRUE]
WalletList == [status |-> 200, received |-> FALSE, error |-> FALSE]
WalletsFailed == [status |-> 500, received |-> FALSE, error |-> TRUE]

\* the X-Api-Key header value '' (a header sent without a value)
EmptyHeader == GivenApiKey("")

\* mutant: an unknown key is served as the first merchant of the registry
getServiceByApiKeyFirstMerchant(reg, instances, apiKey) ==
  LET merchantConfig ==
        IF getMerchantByApiKey(reg, apiKey) # Undefined
          THEN getMerchantByApiKey(reg, apiKey)
          ELSE IF DOMAIN reg.byKey = {} THEN Undefined
               ELSE reg.byKey[CHOOSE k \in DOMAIN reg.byKey : TRUE]
  IN  IF merchantConfig = Undefined
        THEN [config |-> Undefined, instances |-> instances]
        ELSE [config |-> merchantConfig,
              instances |-> instances \cup {getOrCreateService(merchantConfig.merchantKey)}]

\* getServiceByApiKey: the merchant of the key and serviceInstances after
\* getOrCreateService, or undefined with serviceInstances as it was
getServiceByApiKey(reg, instances, apiKey) ==
  LET merchantConfig == getMerchantByApiKey(reg, apiKey)
  IN  IF merchantConfig = Undefined
        THEN [config |-> Undefined, instances |-> instances]
        ELSE [config |-> merchantConfig,
              instances |-> instances \cup {getOrCreateService(merchantConfig.merchantKey)}]

\* GET /api/wallets up to its first suspension: getWallets on the request's
\* service, up to the token exchange or, with a cached token, the request
\* to the provider
WalletsHandler(r, req) ==
  /\ requests' = [requests EXCEPT ![r] =
                    IF CachedTokenValid(service[getOrCreateService(req.merchantKey)], now)
                      THEN [req EXCEPT !.pc = "listing", !.providerCall = TRUE]
                      ELSE [req EXCEPT !.pc = "walletToken"]]
  /\ UNCHANGED <<callbackStore, outbox>>

\* a request to a route mounted behind authMiddleware, up to its first
\* suspension: the middleware, then (next()) the route handler
ApiRequest(r, path, apiKey, body) ==
  /\ requests[r].pc = "idle"
  /\ r > 1 => requests[r - 1].pc # "idle"
  /\ LET req == [requests[r] EXCEPT !.method = "API", !.path = path,
                                    !.apiKey = apiKey]
         result == getServiceByApiKey(registry.maps, serviceInstances, apiKey)
     IN  IF apiKey = Undefined \/ apiKey = EmptyHeader
           THEN /\ Respond(r, req, Unauthorized)
                /\ serviceInstances' = serviceInstances
           ELSE IF result.config = Undefined
             THEN /\ Respond(r, req, Unauthorized)
                  /\ serviceInstances' = result.instances
             ELSE /\ serviceInstances' = result.instances
                  /\ LET authed == [req EXCEPT !.merchantKey = result.config.merchantKey]
                     IN  IF path = "/api/wallets"
                           THEN WalletsHandler(r, authed)
                           ELSE OrdersHandler(r, authed, body)
  /\ UNCHANGED <<DEFAULT_CALLBACK_URL, DEFAULT_CALLBACK_SECRET, tokenVars, verifyVars, registry, envVars, demoVars>>

\* the token exchange of getWallets returns
WalletTokenDone(r, ok, expires_in) ==
  /\ requests[r].pc = "walletToken"
  /\ IF ok
       THEN /\ service' = [service EXCEPT ![getOrCreateService(requests[r].merchantKey)] =
                             [accessToken |-> <<NumCalls + r>>,
                              tokenExpiry |-> <<now + (expires_in - ExpiryMargin)>>]]
            /\ requests' = [requests EXCEPT ![r] =
                              [@ EXCEPT !.pc = "listing", !.providerCall = TRUE]]
            /\ UNCHANGED <<callbackStore, outbox>>
       ELSE /\ service' = service
            /\ Respond(r, requests[r], WalletsFailed)
  /\ UNCHANGED <<DEFAULT_CALLBACK_URL, DEFAULT_CALLBACK_SECRET, now, calls, verifyVars, registryVars, envVars, demoVars>>

\* the provider answers the wallet request, or the request fails
WalletsListed(r, ok) ==
  /\ requests[r].pc = "listing"
  /\ Respond(r, requests[r], IF ok THEN WalletList ELSE WalletsFailed)
  /\ UNCHANGED <<DEFAULT_CALLBACK_URL, DEFAULT_CALLBACK_SECRET, tokenVars, verifyVars, registryVars, envVars, demoVars>>

(***************************************************************************)
(* The demo store (a tenant of the relay)                                  *)
(***************************************************************************)
OrderStatus ==
  [PENDING |-> "pending", AWAITING_PAYMENT |-> "awaiting_payment",
   PAID |-> "paid", FAILED |-> "failed", REFUNDED |-> "refunded",
   SHIPPED |-> "shipped", DELIVERED |-> "delivered"]

\* payload.event?.toLowerCase?.() || ''
ToLowerCase(event) ==
  CASE event = "PAYMENT_SUCCESS" -> "payment_success"
    [] event = "PAYMENT_FAILED" -> "payment_failed"
    [] event = "ORDER_CREATED" -> "order_created"
    [] OTHER -> event

\* verifyWebhookSignature of the demo store on the kinds of header value:
\* timingSafeEqual throws when the value has not the length of a digest
\* (also when the header is missing)
verifyWebhookSignature(signature) ==
  CASE signature = "valid" -> "true"
    [] signature = "wrong digest" -> "false"
    [] OTHER -> "throw"

handlePaymentSuccess(order) == [order EXCEPT !.status = OrderStatus.PAID]

handlePaymentFailed(order) == [order EXCEPT !.status = OrderStatus.FAILED]

handlePaymentRefunded(order) == [order EXCEPT !.status = OrderStatus.REFUNDED]

\* the switch of the webhook handler on the event type
HandleEvent(order, eventType) ==
  CASE eventType = "payment.success" -> handlePaymentSuccess(order)
    [] eventType = "payment.failed" -> handlePaymentFailed(order)
    [] eventType = "payment.refunded" -> handlePaymentRefunded(order)
    [] OTHER -> order

\* POST /api/checkout up to its suspension: the order is stored as pending
\* and the payment order requested from the payments server
Checkout(orderId) ==
  /\ orderId \notin DOMAIN orders
  /\ orders' = [o \in DOMAIN orders \cup {orderId} |->
                  IF o = orderId
                    THEN [status |-> OrderStatus.PENDING, checkout |-> "pending"]
                    ELSE orders[o]]
  /\ demoResponse' = [status |-> 0, order |-> orderId]
  /\ UNCHANGED <<relayVars, tokenVars, verifyVars, registryVars, envVars>>

\* the payments server answers the checkout of an order, or the request
\* fails: the order awaits payment, or the checkout is answered 500
CheckoutDone(orderId, ok) ==
  /\ orderId \in DOMAIN orders
  /\ orders[orderId].checkout = "pending"
  /\ orders' = [orders EXCEPT ![orderId] =
                  IF ok THEN [status |-> OrderStatus.AWAITING_PAYMENT, checkout |-> "done"]
                  ELSE [@ EXCEPT !.checkout = "failed"]]
  /\ demoResponse' = [status |-> IF ok THEN 200 ELSE 500, order |-> orderId]
  /\ UNCHANGED <<relayVars, tokenVars, verifyVars, registryVars, envVars>>

\* POST /webhooks/payment
PaymentWebhook(orderId, event, signature) ==
  /\ IF verifyWebhookSignature(signature) = "false"
       THEN /\ demoResponse' = [status |-> 401, order |-> orderId]
            /\ orders' = orders
       ELSE IF orderId \notin DOMAIN orders
         THEN /\ demoResponse' = [status |-> 200, order |-> ""]
              /\ orders' = orders
         ELSE /\ demoResponse' = [status |-> 200, order |-> orderId]
              /\ orders' = [orders EXCEPT ![orderId] =
                              HandleEvent(@, ToLowerCase(event))]
  /\ UNCHANGED <<relayVars, tokenVars, verifyVars, registryVars, envVars>>

\* POST /api/test/simulate-payment
SimulatePayment(orderId, success) ==
  /\ IF orderId \notin DOMAIN orders
       THEN /\ demoResponse' = [status |-> 404, order |-> orderId]
            /\ orders' = orders
       ELSE /\ demoResponse' = [status |-> 200, order |-> orderId]
            /\ orders' = [orders EXCEPT ![orderId] =
                            IF success THEN handlePaymentSuccess(@)
                            ELSE handlePaymentFailed(@)]
  /\ UNCHANGED <<relayVars, tokenVars, verifyVars, registryVars, envVars>>

InitDemo ==
  /\ orders = <<>>
  /\ demoResponse = [status |-> 0, order |-> ""]

(***************************************************************************)
(* Specifications                                                          *)
(***************************************************************************)
\* the process is started without NODE_ENV, except in the runs of the
\* debug endpoints, the only readers of it
Init ==
  InitRelay /\ InitToken /\ InitVerify /\ InitRegistry /\ InitDemo /\ NODE_ENV = ""

NodeEnvs == {"", "development", "production"}

InitDebug ==
  InitRelay /\ InitToken /\ InitVerify /\ InitRegistry /\ InitDemo
  /\ NODE_ENV \in NodeEnvs

\* the provider's own webhooks for merchant mA: correctly signed, any event
\* type, for order 111
ProviderWebhook(r) ==
  \E e \in EventTypeIds :
    LET body == WebhookPayload(e, NumberCode("111"))
    IN  ReceiveWebhook(r, "mA", HmacSha256Hex("kA", JSONstringifyBody(body)), body)

\* order creation registers a callback; order 222 is only ever registered
\* with a webhookUrl
OrderRegistered ==
  \E oc \in OrderCodes, config \in Configs :
    /\ oc = NumberCode("222") => (config.successUrl = "" /\ config.webhookUrl # "")
    /\ RegisterCallback(oc, config)

Next ==
  \/ \E r \in Requests : ProviderWebhook(r)
  \/ \E r \in Requests, ok \in BOOLEAN : DeliveryDone(r, ok)
  \/ OrderRegistered

Spec == Init /\ [][Next]_vars

\* any sender posting a payment-created event for order 111 to any path,
\* with any signature header
AnyWebhook(r) ==
  \E merchantKey \in {"mA", "mB", "mN", "mX"} :
    LET body == WebhookPayload(1796, NumberCode("111"))
    IN  \E signature \in SignatureHeaders(body) :
          ReceiveWebhook(r, merchantKey, signature, body)

\* a correctly signed POST on mA's path whose body has no EventData
MalformedWebhook(r) ==
  LET body == [EventTypeId |-> 1796, EventData |-> Undefined]
  IN  ReceiveWebhook(r, "mA", HmacSha256Hex("kA", JSONstringifyBody(body)), body)

GateOrderRegistered ==
  \E config \in Configs :
    /\ config.successUrl = "" /\ config.webhookUrl # ""
    /\ RegisterCallback(NumberCode("111"), config)

NextGate ==
  \/ \E r \in Requests : AnyWebhook(r)
  \/ \E r \in Requests : MalformedWebhook(r)
  \/ \E r \in Requests, merchantKey \in {"mA", "mX"} : VerifyWebhookUrl(r, merchantKey)
  \/ \E r \in Requests, ok \in BOOLEAN : VerificationDone(r, ok)
  \/ \E r \in Requests, ok \in BOOLEAN : DeliveryDone(r, ok)
  \/ GateOrderRegistered

SpecGate == Init /\ [][NextGate]_vars

NextToken ==
  \/ \E c \in Calls, tenant \in Tenants : GetAccessToken(c, tenant)
  \/ \E c \in Calls, e \in ExpiresIn : ExchangeSucceeds(c, e)
  \/ \E c \in Calls : ExchangeFails(c)
  \/ Tick

SpecToken == Init /\ [][NextToken]_vars

\* the callback configurations of the routing runs: those above and one
\* that names the same URL as successUrl and as webhookUrl
RouteConfigs ==
  Configs \cup
  { CallbackConfig("https://a.example/wh", "", "https://a.example/wh", "sO",
                   FALSE, Undefined) }

\* order 111 is created with a callback
RouteOrderCreated(r) ==
  \E callback \in RouteConfigs : CreateOrder(r, NumberCode("111"), callback)

NextRoute ==
  \/ \E r \in Requests : ProviderWebhook(r)
  \/ \E r \in Requests : RouteOrderCreated(r)
  \/ \E r \in Requests, ok \in BOOLEAN : DeliveryDone(r, ok)

SpecRoute == Init /\ [][NextRoute]_vars

\* the race of a re-registration with a payment.success delivery: order 111
\* is registered, its payment-created webhook arrives, and the order code
\* is registered again by an order creation
FirstRegistration ==
  \E config \in Configs :
    /\ callbackStore = <<>>
    /\ \A r \in Requests : requests[r].pc = "idle"
    /\ RegisterCallback(NumberCode("111"), config)

SuccessWebhook(r) ==
  LET body == WebhookPayload(1796, NumberCode("111"))
  IN  ReceiveWebhook(r, "mA", HmacSha256Hex("kA", JSONstringifyBody(body)), body)

NextRace ==
  \/ FirstRegistration
  \/ \E r \in Requests : SuccessWebhook(r)
  \/ \E r \in Requests : RouteOrderCreated(r)
  \/ \E r \in Requests, ok \in BOOLEAN : DeliveryDone(r, ok)

SpecRace == Init /\ [][NextRace]_vars

\* the environments the registry is built from: one or two merchants, each
\* with or without an API key (two are in use), client id and client secret
EnvMerchants(merchantKey) ==
  { MerchantEnv(merchantKey, apiKey, clientId, clientSecret) :
      apiKey \in {"", "api-1", "api-2"},
      clientId \in {"", "client-" \o merchantKey},
      clientSecret \in {"", "secret"} }

Environments ==
  { <<a>> : a \in EnvMerchants("mA") }
  \cup { <<a, b>> : a \in EnvMerchants("mA"), b \in EnvMerchants("mB") }
  \cup { <<b, a>> : a \in EnvMerchants("mA"), b \in EnvMerchants("mB") }

NextRegistry == \E env \in Environments : LoadMerchantConfigs(env)

SpecRegistry == Init /\ [][NextRegistry]_vars

\* the life of one order registered with metadata: order 111 is registered
\* once, with a webhookUrl and metadata, and the provider's webhooks for it
\* arrive afterwards
EchoConfig ==
  CallbackConfig("", "", "https://a.example/wh", "sO", FALSE, [orderId |-> "ORD-1"])

EchoRegistration ==
  /\ callbackStore = <<>>
  /\ \A r \in Requests : requests[r].pc = "idle"
  /\ RegisterCallback(NumberCode("111"), EchoConfig)

NextEcho ==
  \/ EchoRegistration
  \/ \E r \in Requests : ProviderWebhook(r)
  \/ \E r \in Requests, ok \in BOOLEAN : DeliveryDone(r, ok)

SpecEcho == Init /\ [][NextEcho]_vars

\* the CallbackStore on its own: entries are registered under numeric order
\* codes and removed under either form of a code
StoreCodes == OrderCodes \cup {NumberCode("1234567890123456")}

Forms(orderCode) == {orderCode, String(orderCode)}

StoreRegistered ==
  \E n \in StoreCodes, config \in RouteConfigs : RegisterCallback(n, config)

StoreRemoved ==
  \E n \in StoreCodes : \E orderCode \in Forms(n) : RemoveCallback(orderCode)

NextStore == StoreRegistered \/ StoreRemoved

SpecStore == Init /\ [][NextStore]_vars

\* the order requests of the order-creation runs: a payment and a card
\* verification at the limits the validations allow, each without a
\* callback and with one, and one request for each validation that fails
ValidOrder(amount, isCardVerification, callback) ==
  OrderBody(amount, isCardVerification, OtherText(MaxDescriptorLength),
            [i \in 1..MaxCardTokens |-> "tok"], <<MaxInstallments>>, <<1>>,
            "https://a.example/fail", callback)

PlainOrder(amount, isCardVerification, dynamicDescriptor, cardTokens, maxInstallments, stateId, urlFail) ==
  OrderBody(amount, isCardVerification, dynamicDescriptor, cardTokens,
            maxInstallments, stateId, urlFail,
            CallbackConfig("", "", "https://a.example/wh", "sO", FALSE,
                           [orderId |-> "ORD-1"]))

OrderBodies ==
  { ValidOrder(amount[1], amount[2], callback) :
      amount \in {<< <<MinAmount>>, FALSE >>, << <<0>>, TRUE >>},
      callback \in {Undefined} \cup
                   {c \in Configs : c.successUrl = ""} }
  \cup
  { PlainOrder(<<MinAmount - 1>>, FALSE, Undefined, <<>>, <<>>, <<>>, ""),
    PlainOrder(<<>>, FALSE, Undefined, <<>>, <<>>, <<>>, ""),
    PlainOrder(<<MinAmount>>, TRUE, Undefined, <<>>, <<>>, <<>>, ""),
    PlainOrder(<<MinAmount>>, FALSE, OtherText(MaxDescriptorLength + 1),
               <<>>, <<>>, <<>>, ""),
    PlainOrder(<<MinAmount>>, FALSE, Undefined,
               [i \in 1..(MaxCardTokens + 1) |-> "tok"], <<>>, <<>>, ""),
    PlainOrder(<<MinAmount>>, FALSE, Undefined, <<>>, <<0>>, <<>>, ""),
    PlainOrder(<<MinAmount>>, FALSE, Undefined, <<>>, <<MaxInstallments + 1>>,
               <<>>, ""),
    PlainOrder(<<MinAmount>>, FALSE, Undefined, <<>>, <<>>, <<1>>, ""),
    PlainOrder(<<MinAmount>>, FALSE, Undefined, <<>>, <<>>, <<>>,
               "https://a.example/fail") }

NextOrder ==
  \/ \E r \in Requests, body \in OrderBodies : PostOrders(r, body)
  \/ \E r \in Requests, ok \in BOOLEAN : OrderTokenDone(r, ok, ExpiryMargin + 2)
  \/ \E r \in Requests, ok \in BOOLEAN, orderCode \in OrderCodes :
       OrderPlaced(r, ok, orderCode)
  \/ \E r \in Requests, ok \in BOOLEAN : DeliveryDone(r, ok)

SpecOrder == Init /\ [][NextOrder]_vars

\* the authenticated API: the registry is loaded at start-up with merchant
\* mA (API key api-1) and merchant mB (no API key configured: a random one),
\* then requests arrive with no key, an empty one, each merchant's key and
\* a key of no merchant
AuthEnvironment ==
  << MerchantEnv("mA", "api-1", "client-mA", "secret"),
     MerchantEnv("mB", "", "client-mB", "secret") >>

ApiKeyHeaders ==
  {Undefined, EmptyHeader, GivenApiKey("api-1"), GivenApiKey("api-9"),
   RandomApiKey("mB")}

Startup ==
  /\ registry.env = <<>>
  /\ LoadMerchantConfigs(AuthEnvironment)

ApiTraffic(r) ==
  /\ registry.env # <<>>
  /\ \E path \in {"/api/payments", "/api/wallets"}, apiKey \in ApiKeyHeaders :
       ApiRequest(r, path, apiKey, ValidOrder(<<MinAmount>>, FALSE, EchoConfig))

NextAuth ==
  \/ Startup
  \/ \E r \in Requests : ApiTraffic(r)
  \/ \E r \in Requests, ok \in BOOLEAN : OrderTokenDone(r, ok, ExpiryMargin + 2)
  \/ \E r \in Requests, ok \in BOOLEAN : OrderPlaced(r, ok, NumberCode("111"))
  \/ \E r \in Requests, ok \in BOOLEAN : WalletTokenDone(r, ok, ExpiryMargin + 2)
  \/ \E r \in Requests, ok \in BOOLEAN : WalletsListed(r, ok)
  \/ \E r \in Requests, ok \in BOOLEAN : DeliveryDone(r, ok)

SpecAuth == Init /\ [][NextAuth]_vars

\* the debug endpoints in every environment: order 111 is registered, and
\* simulate and introspection requests arrive for it, the order code given
\* as a number, as a string or (simulate) not at all
DebugRegistered ==
  \E config \in Configs : RegisterCallback(NumberCode("111"), config)

SimulateRequest(r) ==
  \E orderCode \in Forms(NumberCode("111")) \cup {Undefined},
     eventType \in {"success", "failed", "refund"} :
    TestSimulate(r, orderCode, eventType)

IntrospectRequest(r) == CallbackIntrospection(r, String(NumberCode("111")))

NextDebug ==
  \/ DebugRegistered
  \/ \E r \in Requests : SimulateRequest(r)
  \/ \E r \in Requests : IntrospectRequest(r)
  \/ \E r \in Requests, ok \in BOOLEAN : DeliveryDone(r, ok)

SpecDebug == InitDebug /\ [][NextDebug]_vars

\* simulated and real webhooks side by side, outside production: order 111
\* is registered once, then simulate requests and the provider's webhooks
\* for it arrive in any order
InitSimulate ==
  InitRelay /\ InitToken /\ InitVerify /\ InitRegistry /\ InitDemo
  /\ NODE_ENV \in NodeEnvs \ {"production"}

SimulateTypes == {"success", "failed", "refund"}

SimulatedWebhook(r) ==
  \E orderCode \in Forms(NumberCode("111")), eventType \in SimulateTypes :
    TestSimulate(r, orderCode, eventType)

NextSimulate ==
  \/ FirstRegistration
  \/ \E r \in Requests : SimulatedWebhook(r)
  \/ \E r \in Requests : ProviderWebhook(r)
  \/ \E r \in Requests, ok \in BOOLEAN : DeliveryDone(r, ok)

SpecSimulate == InitSimulate /\ [][NextSimulate]_vars

\* the demo store: two orders are checked out, and the relay's events, a
\* simulated payment's event name, and simulated payments arrive for them
\* with a valid signature, a wrong digest, or a value that is no digest
DemoOrderIds == {"ORD-1", "ORD-2"}

DemoEvents ==
  {PAYMENT_SUCCESS, PAYMENT_FAILED, PAYMENT_REFUNDED, ORDER_CREATED, "PAYMENT_SUCCESS"}

DemoSignatures == {"valid", "wrong digest", "no digest"}

NextDemo ==
  \/ \E orderId \in DemoOrderIds : Checkout(orderId)
  \/ \E orderId \in DemoOrderIds, ok \in BOOLEAN : CheckoutDone(orderId, ok)
  \/ \E orderId \in DemoOrderIds, event \in DemoEvents, signature \in DemoSignatures :
       PaymentWebhook(orderId, event, signature)
  \/ \E orderId \in DemoOrderIds, success \in BOOLEAN :
       SimulatePayment(orderId, success)

SpecDemo == Init /\ [][NextDemo]_vars

\* the secrets verifySignature is called with: none, and each tenant's
WebhookSecrets == {merchantsByKey[k].webhookSecret : k \in DOMAIN merchantsByKey}

\* verifySignature over every payload, header value and secret
VerifyAny ==
  \E e \in EventTypeIds, oc \in OrderCodes, secret \in WebhookSecrets :
    LET body == WebhookPayload(e, oc)
    IN  \E signature \in SignatureHeaders(body) :
          VerifySignature(JSONstringifyBody(body), signature, secret)

NextVerify == VerifyAny

SpecVerify == Init /\ [][NextVerify]_vars

(***************************************************************************)
(* Properties of the webhook relay                                         *)
(***************************************************************************)
\* request r got past the event switch: a forwarder run exists for it
Forwarding(r) == requests[r].pc \in {"awaiting", "done"} /\ requests[r].event # ""

\* request r takes a step (arrives, or resumes after a delivery)
Steps(r) == requests'[r] # requests[r]

Arrives(r) == requests[r].pc = "idle" /\ requests'[r].pc # "idle"

Completes(r) == requests[r].pc # "done" /\ requests'[r].pc = "done"

\* the URLs a registration names
PerOrderUrls(config) ==
  IF config = Undefined THEN {}
  ELSE {config.successUrl, config.failureUrl, config.webhookUrl} \ {""}

\* the payment.success POSTs made to url for orderCode, as <<request, index>>
SuccessPosts(orderCode, url) ==
  UNION { { <<r, i>> : i \in { j \in DOMAIN outbox[r] : outbox[r][j].url = url } } :
          r \in { q \in Requests : /\ requests[q].event = PAYMENT_SUCCESS
                                   /\ requests[q].orderCode = orderCode
                                   /\ url \in PerOrderUrls(requests[q].config) } }

AllUrls == UNION { PerOrderUrls(c) : c \in Configs }

\* C1: each URL registered for an order receives at most one payment.success
\* POST for that order, whatever the interleaving of inbound webhooks
C1_AtMostOneSuccessPost ==
  \A oc \in OrderCodes, url \in AllUrls : Cardinality(SuccessPosts(oc, url)) <= 1

\* the registry secret of the path a request was posted to ("" if none)
SecretOf(merchantKey) ==
  IF merchantKey \in DOMAIN merchantsByKey
    THEN merchantsByKey[merchantKey].webhookSecret ELSE ""

ExpectedSignature(req) ==
  HmacSha256Hex(SecretOf(req.merchantKey), JSONstringifyBody(req.body))

\* C2: for a tenant with a webhookSecret, a POST whose signature header value
\* is supplied and differs from the hex HMAC-SHA256 of the body under that
\* secret is answered 401, sends nothing and leaves the CallbackStore as it is
C2_MismatchRejected ==
  [][\A r \in Requests :
       ( /\ Arrives(r)
         /\ SecretOf(requests'[r].merchantKey) # ""
         /\ requests'[r].signature # Undefined
         /\ requests'[r].signature # ExpectedSignature(requests'[r]) )
       => ( /\ requests'[r].response = InvalidSignature
            /\ outbox' = outbox
            /\ callbackStore' = callbackStore )]_vars

\* C3: for a tenant with a webhookSecret, a request is forwarded only if it
\* carried a signature that verifies; one without a signature header sends
\* nothing and leaves the CallbackStore as it is
C3_SignatureRequired ==
  [][\A r \in Requests :
       ( /\ Arrives(r)
         /\ SecretOf(requests'[r].merchantKey) # ""
         /\ requests'[r].signature = Undefined )
       => (outbox' = outbox /\ callbackStore' = callbackStore)]_vars

\* C4: when the handling of a payment.success event for order X completes,
\* the CallbackStore has no entry for X, whatever the delivery outcomes
C4_SuccessConsumesEntry ==
  [][\A r \in Requests :
       (Completes(r) /\ requests'[r].event = PAYMENT_SUCCESS)
       => getCallback(callbackStore', requests'[r].orderCode) = Undefined]_vars

\* C4 witness: a payment.success handling for a registered order has
\* completed after a failed delivery, and the entry is gone
C4_Witness ==
  \E r \in Requests :
    /\ requests[r].pc = "done"
    /\ requests[r].event = PAYMENT_SUCCESS
    /\ requests[r].config # Undefined
    /\ \E i \in DOMAIN outbox[r] : outbox[r][i].outcome = "failed"
    /\ getCallback(callbackStore, requests[r].orderCode) = Undefined

\* C5: no step of the handling of a payment.failed event removes or changes
\* a CallbackStore entry, whatever the delivery outcomes
C5_FailedRetainsEntry ==
  [][\A r \in Requests :
       (Steps(r) /\ requests'[r].event = PAYMENT_FAILED)
       => callbackStore' = callbackStore]_vars

\* C5 witness: a payment.failed handling for a registered order has completed
\* after a failed delivery and the entry it read is still the stored one
C5_Witness ==
  \E r \in Requests :
    /\ requests[r].pc = "done"
    /\ requests[r].event = PAYMENT_FAILED
    /\ requests[r].config # Undefined
    /\ \E i \in DOMAIN outbox[r] : outbox[r][i].outcome = "failed"
    /\ getCallback(callbackStore, requests[r].orderCode) = requests[r].config

\* a registration {webhookUrl: U, secret: S, metadata: M} and nothing else
WebhookUrlOnly(config) ==
  /\ config # Undefined
  /\ config.successUrl = "" /\ config.failureUrl = ""
  /\ config.webhookUrl # "" /\ config.secret # ""
  /\ config.metadata # Undefined

\* C6: a payment.success event for an order registered as {webhookUrl: U,
\* secret: S, metadata: M} produces exactly one POST, to U, with
\* X-Webhook-Event payment.success, data.metadata M and X-Webhook-Signature
\* the hex HMAC-SHA256 under S of the serialized body
C6_RoundTrip ==
  \A r \in Requests :
    (Forwarding(r) /\ requests[r].event = PAYMENT_SUCCESS
       /\ WebhookUrlOnly(requests[r].config))
    => /\ Len(outbox[r]) = 1
       /\ Sent(r, 1).url = requests[r].config.webhookUrl
       /\ Sent(r, 1).headers.XWebhookEvent = "payment.success"
       /\ Sent(r, 1).body["data"]["metadata"] = requests[r].config.metadata
       /\ Sent(r, 1).headers.XWebhookSignature =
            HmacSha256Hex(requests[r].config.secret, Sent(r, 1).body)

\* C6 witness: such a handling has completed with its POST delivered
C6_Witness ==
  \E r \in Requests :
    /\ requests[r].pc = "done"
    /\ requests[r].event = PAYMENT_SUCCESS
    /\ WebhookUrlOnly(requests[r].config)
    /\ Len(outbox[r]) = 1
    /\ outbox[r][1].outcome = "delivered"

SecuredTenants == {k \in DOMAIN merchantsByKey : merchantsByKey[k].webhookSecret # ""}

\* C14: for tenants A and B with distinct keys and distinct webhook secrets,
\* a body with the signature made under A's secret is rejected with 401 and
\* not forwarded when posted to B's path, and is accepted (and, the body
\* being a well-formed event, forwarded) when posted to A's path
C14_CrossTenantRejected ==
  \A r \in Requests, A \in SecuredTenants, B \in SecuredTenants :
    ( /\ A # B
      /\ merchantsByKey[A].webhookSecret # merchantsByKey[B].webhookSecret
      /\ requests[r].pc # "idle"
      /\ requests[r].signature =
           HmacSha256Hex(merchantsByKey[A].webhookSecret,
                         JSONstringifyBody(requests[r].body)) )
    => /\ requests[r].merchantKey = B
            => ( /\ requests[r].response = InvalidSignature
                 /\ ~Forwarding(r)
                 /\ outbox[r] = <<>> )
       /\ requests[r].merchantKey = A
            => ( /\ requests[r].response # InvalidSignature
                 /\ requests[r].body.EventData # Undefined => Forwarding(r) )

\* C14 witness: one body with tenant A's signature was posted to both
\* paths; it was forwarded on A's and answered 401 on B's
C14_Witness ==
  \E r1, r2 \in Requests :
    /\ requests[r1].merchantKey = "mA" /\ requests[r2].merchantKey = "mB"
    /\ requests[r1].body = requests[r2].body
    /\ requests[r1].signature = requests[r2].signature
    /\ requests[r1].signature =
         HmacSha256Hex("kA", JSONstringifyBody(requests[r1].body))
    /\ Forwarding(r1) /\ requests[r1].pc = "done"
    /\ requests[r2].response = InvalidSignature

\* C15: a POST to a resolved tenant's path that is not answered 401 for its
\* signature is answered 200 with received:true, whether the event is
\* unroutable, every delivery fails or processing throws; when the forwarder
\* ran, the answer is the plain acknowledgement whatever the delivery outcomes
C15_AlwaysAcknowledged ==
  \A r \in Requests :
    ( /\ requests[r].pc = "done"
      /\ requests[r].method = "POST"
      /\ getMerchantByKey(requests[r].merchantKey) # Undefined
      /\ requests[r].response # InvalidSignature )
    => /\ requests[r].response.status = 200
       /\ requests[r].response.received
       /\ Forwarding(r) => requests[r].response = Ack

\* C15 witness: every case of the claim has happened: a request whose only
\* delivery failed and one whose processing threw were both answered 200
\* with received:true
C15_Witness ==
  \E r1, r2 \in Requests :
    /\ requests[r1].pc = "done"
    /\ Len(outbox[r1]) >= 1
    /\ \A i \in DOMAIN outbox[r1] : outbox[r1][i].outcome = "failed"
    /\ requests[r1].response = Ack
    /\ requests[r2].pc = "done"
    /\ requests[r2].body.EventData = Undefined
    /\ requests[r2].response = AckProcessingError

\* C16: a GET or POST to the webhook path whose tenant key does not resolve
\* is answered 404 at once and changes no state: no CallbackStore entry is
\* looked up, removed or created, and no outbound delivery and no provider
\* call is made
C16_UnknownTenantNoEffect ==
  [][\A r \in Requests :
       (Arrives(r) /\ requests'[r].merchantKey \notin DOMAIN merchantsByKey)
       => ( /\ requests'[r].pc = "done"
            /\ requests'[r].response = MerchantNotFound
            /\ requests'[r].config = Undefined /\ requests'[r].event = ""
            /\ callbackStore' = callbackStore
            /\ outbox' = outbox
            /\ ~requests'[r].providerCall
            /\ service' = service /\ calls' = calls )]_vars

\* C16 witness: a GET and a POST for an unknown tenant key were both
\* answered 404 while an order was registered
C16_Witness ==
  \E r1, r2 \in Requests :
    /\ requests[r1].method = "GET" /\ requests[r2].method = "POST"
    /\ requests[r1].merchantKey = "mX" /\ requests[r2].merchantKey = "mX"
    /\ requests[r1].response = MerchantNotFound
    /\ requests[r2].response = MerchantNotFound
    /\ callbackStore # <<>>

\* request r is the handling of a provider event for a registered order
Routed(r) ==
  /\ requests[r].method = "POST" /\ Forwarding(r)
  /\ requests[r].config # Undefined

\* the registration fields an event type is delivered to, in delivery order
EventFields(event) ==
  CASE event = PAYMENT_SUCCESS -> <<"successUrl", "webhookUrl">>
    [] event = PAYMENT_FAILED -> <<"failureUrl", "webhookUrl">>
    [] event = PAYMENT_REFUNDED -> <<"webhookUrl">>
    [] event = ORDER_CREATED -> <<"webhookUrl">>

IsPresent(url) == url # ""

\* the URLs of those fields that the registration holds, in delivery order
EventFieldUrls(event, config) ==
  SelectSeq([i \in DOMAIN EventFields(event) |-> config[EventFields(event)[i]]],
            IsPresent)

EventUrls(event, config) ==
  {EventFieldUrls(event, config)[i] : i \in DOMAIN EventFieldUrls(event, config)}

PostsTo(r, url) == {i \in DOMAIN outbox[r] : outbox[r][i].url = url}

IsPerOrderPost(post) == post.url # DEFAULT_CALLBACK_URL

\* the URLs request r has POSTed to, the default URL left out, in order
PerOrderPostUrls(r) ==
  LET posts == SelectSeq(outbox[r], IsPerOrderPost)
  IN  [i \in DOMAIN posts |-> posts[i].url]

\* C17 as claimed: an event is POSTed to no per-order URL outside the set
\* of its type (success: successUrl, webhookUrl; failed: failureUrl,
\* webhookUrl; refunded: webhookUrl) and every URL of that set present in
\* the registration receives exactly one POST
C17_OnePostPerUrl ==
  \A r \in Requests :
    Routed(r) =>
      /\ \A i \in DOMAIN outbox[r] :
           outbox[r][i].url \in PerOrderUrls(requests[r].config)
             => outbox[r][i].url \in EventUrls(requests[r].event, requests[r].config)
      /\ requests[r].pc = "done" =>
           \A url \in EventUrls(requests[r].event, requests[r].config) :
             Cardinality(PostsTo(r, url)) = 1

\* C17 amended: an event is POSTed to no per-order URL outside the set of
\* its type, and every field of that set present in the registration yields
\* exactly one POST to its URL, in the order of the set (so a URL registered
\* under two fields of the set receives two POSTs)
C17_OnePostPerField ==
  \A r \in Requests :
    Routed(r) =>
      /\ \A i \in DOMAIN outbox[r] :
           outbox[r][i].url \in PerOrderUrls(requests[r].config)
             => outbox[r][i].url \in EventUrls(requests[r].event, requests[r].config)
      /\ requests[r].pc = "done" =>
           PerOrderPostUrls(r) =
             EventFieldUrls(requests[r].event, requests[r].config)

\* C17 witness: a payment.failed event for an order registered with
\* successUrl, failureUrl and webhookUrl was POSTed to the latter two only
C17_Witness ==
  \E r \in Requests :
    /\ Routed(r) /\ requests[r].pc = "done"
    /\ requests[r].event = PAYMENT_FAILED
    /\ requests[r].config.successUrl # ""
    /\ PerOrderPostUrls(r) =
         <<requests[r].config.failureUrl, requests[r].config.webhookUrl>>

\* C18: for every event type (order.created, payment.success,
\* payment.failed, payment.refunded) the process-wide default callback URL
\* receives a POST only when the registration supplies no per-order
\* destination URL for the event; with a per-order webhookUrl registered
\* the default URL receives nothing
C18_DefaultOnlyAsFallback ==
  \A r \in Requests :
    Forwarding(r) =>
      \A i \in DOMAIN outbox[r] :
        outbox[r][i].url = DEFAULT_CALLBACK_URL
          => \/ requests[r].config = Undefined
             \/ /\ EventUrls(requests[r].event, requests[r].config) = {}
                /\ requests[r].config.webhookUrl = ""

\* the destinations of the event request r handles, as selected from the
\* registration it read and the default callback settings
Planned(r) ==
  IF requests[r].event = ORDER_CREATED
    THEN forwardOrderCreated(requests[r].config, DEFAULT_CALLBACK_URL,
                             DEFAULT_CALLBACK_SECRET)
    ELSE Destinations(requests[r].event, requests[r].config,
                      DEFAULT_CALLBACK_URL, DEFAULT_CALLBACK_SECRET)

\* the destinations request r has attempted so far, in order
Attempted(r) ==
  [i \in DOMAIN outbox[r] |-> Dest(outbox[r][i].url, outbox[r][i].secret)]

\* C19: while one event is handled, a failed delivery (non-2xx, network
\* error, timeout) does not prevent the attempt to each remaining
\* destination, and every destination is attempted exactly once: whatever
\* the outcomes, the attempts made are the selected destinations in order,
\* all of them once the handling is complete, and only the last can be
\* outstanding
C19_EveryDestinationOnce ==
  \A r \in Requests :
    Forwarding(r) =>
      /\ Len(outbox[r]) <= Len(Planned(r))
      /\ Attempted(r) = SubSeq(Planned(r), 1, Len(outbox[r]))
      /\ requests[r].pc = "done" => Len(outbox[r]) = Len(Planned(r))
      /\ \A i \in DOMAIN outbox[r] :
           outbox[r][i].outcome = "pending"
             <=> (requests[r].pc = "awaiting" /\ i = Len(outbox[r]))

\* C19 witness: a handling with two destinations completed; the first
\* delivery failed and the second was attempted all the same
C19_Witness ==
  \E r \in Requests :
    /\ Forwarding(r) /\ requests[r].pc = "done"
    /\ Len(outbox[r]) = 2
    /\ outbox[r][1].outcome = "failed"
    /\ outbox[r][2].outcome \in {"delivered", "failed"}

\* C20: no step of the handling of a payment.refunded event changes the
\* CallbackStore: the entry of the event's order code and of every other
\* order code is neither removed, replaced nor created
C20_RefundLeavesStore ==
  [][\A r \in Requests :
       (Steps(r) /\ requests'[r].event = PAYMENT_REFUNDED)
       => callbackStore' = callbackStore]_vars

\* C20 witness: a payment.refunded handling for a registered order has
\* completed after a delivery, and the entry it read is still the stored one
C20_Witness ==
  \E r \in Requests :
    /\ requests[r].pc = "done"
    /\ requests[r].event = PAYMENT_REFUNDED
    /\ requests[r].config # Undefined
    /\ Len(outbox[r]) >= 1
    /\ getCallback(callbackStore, requests[r].orderCode) = requests[r].config

\* request r is a provider webhook that got past the signature gate with a
\* well-formed body
Admitted(r) ==
  /\ requests[r].method = "POST"
  /\ requests[r].pc \in {"awaiting", "done"}
  /\ requests[r].response \notin {MerchantNotFound, InvalidSignature, AckProcessingError}

\* the canonical event of a provider event code, "" for none
CanonicalEvent(code) ==
  IF code = 1796 THEN "payment.success"
  ELSE IF code = 1798 THEN "payment.failed"
  ELSE IF code = 1797 THEN "payment.refunded"
  ELSE ""

\* C21: provider code 1796 is forwarded as payment.success, 1798 as
\* payment.failed, 1797 as payment.refunded (in the event header and in the
\* body of every POST made for it); a webhook with any other code yields no
\* canonical event, no outbound POST and no CallbackStore change, and is
\* answered 200
C21_EventMapping ==
  /\ [](\A r \in Requests :
          Admitted(r) =>
            LET expected == CanonicalEvent(requests[r].body.EventTypeId)
            IN  /\ requests[r].event = expected
                /\ \A i \in DOMAIN outbox[r] :
                     /\ Sent(r, i).headers.XWebhookEvent = expected
                     /\ Sent(r, i).body["event"] = expected
                /\ expected = "" => ( /\ outbox[r] = <<>>
                                      /\ requests[r].pc = "done"
                                      /\ requests[r].response = Ack ))
  /\ [][\A r \in Requests :
          ( /\ Steps(r) /\ requests'[r].method = "POST"
            /\ requests'[r].body.EventTypeId \notin {1796, 1797, 1798} )
          => callbackStore' = callbackStore]_vars

\* C21 witness: a reversal (1797) was delivered as payment.refunded, and a
\* webhook with an unknown code for a registered order was acknowledged
\* with nothing sent
C21_Witness ==
  \E r1, r2 \in Requests :
    /\ Admitted(r1) /\ requests[r1].body.EventTypeId = 1797
    /\ Len(outbox[r1]) >= 1
    /\ Sent(r1, 1).headers.XWebhookEvent = "payment.refunded"
    /\ Admitted(r2) /\ requests[r2].body.EventTypeId = 1799
    /\ requests[r2].config = Undefined /\ outbox[r2] = <<>>
    /\ requests[r2].response = Ack
    /\ getCallback(callbackStore, requests[r2].body.EventData.OrderCode) # Undefined

\* C22: an order's registration is either present or absent, and the
\* handling of a webhook event (success, failed, refunded or unknown code)
\* never creates or replaces a CallbackStore entry: every entry after a step
\* of a webhook handling was there before, unchanged; so an order whose
\* entry is absent, as after a handled payment.success, stays absent through
\* every step of webhook handling
C22_SuccessIsOneWay ==
  [][\A r \in Requests :
       (Steps(r) /\ requests'[r].method = "POST")
       => /\ DOMAIN callbackStore' \subseteq DOMAIN callbackStore
          /\ \A k \in DOMAIN callbackStore' : callbackStore'[k] = callbackStore[k]
          /\ \A oc \in OrderCodes :
               getCallback(callbackStore, oc) = Undefined
                 => getCallback(callbackStore', oc) = Undefined]_vars

\* C22 witness: payment.success was handled for a registered order, a later
\* payment.failed webhook for that order found the entry absent and was
\* handled to the end, and the entry is still absent
C22_Witness ==
  \E r1, r2 \in Requests :
    /\ r1 < r2
    /\ requests[r1].pc = "done" /\ requests[r1].event = PAYMENT_SUCCESS
    /\ requests[r1].config # Undefined
    /\ requests[r2].pc = "done" /\ requests[r2].event = PAYMENT_FAILED
    /\ requests[r2].orderCode = requests[r1].orderCode
    /\ requests[r2].config = Undefined
    /\ getCallback(callbackStore, requests[r1].orderCode) = Undefined

\* C23: when a registration for X interleaves with an in-flight delivery for
\* X the last write wins: after a registration step the entry of X is the
\* configuration just registered, after the completion of a payment.success
\* delivery the entry of X is absent, whatever the other wrote before; and
\* the in-flight delivery keeps the configuration it read when it started
\* and POSTs to the destinations of that configuration only
C23_LastWriteWins ==
  /\ [][ /\ \A r \in Requests :
              (Completes(r) /\ requests'[r].event = PAYMENT_SUCCESS)
              => getCallback(callbackStore', requests'[r].orderCode) = Undefined
         /\ \A r \in Requests :
              (Arrives(r) /\ requests'[r].method = "ORDER")
              => getCallback(callbackStore', requests'[r].orderCode)
                   = requests'[r].config
         /\ \A r \in Requests :
              requests[r].pc = "awaiting"
                => requests'[r].config = requests[r].config ]_vars
  /\ [](\A r \in Requests :
          Forwarding(r) =>
            Attempted(r) = SubSeq(Planned(r), 1, Len(outbox[r])))

\* C23 witness: while a payment.success delivery for X that read one
\* configuration is in flight, the entry of X is another configuration,
\* registered since
C23_Witness ==
  \E r1, r2 \in Requests :
    /\ requests[r1].pc = "awaiting" /\ requests[r1].event = PAYMENT_SUCCESS
    /\ requests[r1].config # Undefined
    /\ requests[r2].method = "ORDER"
    /\ requests[r2].orderCode = requests[r1].orderCode
    /\ requests[r2].config # requests[r1].config
    /\ getCallback(callbackStore, requests[r1].orderCode) = requests[r2].config

(***************************************************************************)
(* Properties of the token cache                                           *)
(***************************************************************************)
Called(c) == calls[c].pc # "idle"

\* the cache record call c found when it was made
Seen(c) == calls[c].seen[1]

\* C8 as claimed: at most one token exchange is in progress for a tenant at
\* any time, also when several getToken calls are in flight concurrently
C8_SingleFlight ==
  \A t \in Tenants :
    Cardinality({c \in Calls : calls[c].pc = "fetching" /\ calls[c].tenant = t}) <= 1

\* C8 amended: a getToken call starts an exchange only if no valid token is
\* cached when it is made (none cached, or the clock has reached expiresAt);
\* calls made while no valid token is cached each perform their own exchange
C8_ExchangeOnlyWithoutValidToken ==
  \A c \in Calls :
    Called(c) =>
      ( calls[c].exchange <=>
          ( \/ Seen(c).accessToken = <<>>
            \/ Seen(c).tokenExpiry = <<>>
            \/ calls[c].calledAt >= Seen(c).tokenExpiry[1] ) )

\* C8 witness: two calls for one tenant are in flight at once, each with
\* its own exchange
C8_Witness ==
  \E c1, c2 \in Calls :
    /\ c1 # c2
    /\ calls[c1].tenant = calls[c2].tenant
    /\ calls[c1].pc = "fetching" /\ calls[c2].pc = "fetching"

\* C9: when a call obtained a token by an exchange answered at time t with
\* expires_in E, and a later call for that tenant finds that token cached at
\* a time before t + E - 300, the later call performs no exchange and
\* returns the same token: one exchange for the two calls
C9_SecondCallServedFromCache ==
  \A c1, c2 \in Calls :
    ( /\ c1 # c2
      /\ calls[c1].pc = "returned" /\ calls[c1].exchange
      /\ Called(c2)
      /\ calls[c2].tenant = calls[c1].tenant
      /\ Seen(c2).accessToken = calls[c1].result
      /\ calls[c2].calledAt < calls[c1].issuedAt + calls[c1].expires_in - ExpiryMargin )
    => ( /\ ~calls[c2].exchange
         /\ calls[c2].pc = "returned"
         /\ calls[c2].result = calls[c1].result )

\* C9 witness: two calls for one tenant, the first with an exchange, the
\* second answered from the cache with the same token
C9_Witness ==
  \E c1, c2 \in Calls :
    /\ c1 # c2
    /\ calls[c1].tenant = calls[c2].tenant
    /\ calls[c1].pc = "returned" /\ calls[c1].exchange
    /\ calls[c2].pc = "returned" /\ ~calls[c2].exchange
    /\ calls[c2].result = calls[c1].result

\* C10: with a token cached that was obtained at time t with expires_in E,
\* a call before t + E - 300 is answered from the cache without an exchange
\* and a call at or after t + E - 300 performs a new exchange
C10_ExpiryWindow ==
  \A c \in Calls :
    (Called(c) /\ Seen(c).accessToken # <<>>)
    => LET k == Seen(c).accessToken[1]
           expiresAt == calls[k].issuedAt + calls[k].expires_in - ExpiryMargin
       IN  IF calls[c].calledAt < expiresAt
             THEN /\ ~calls[c].exchange
                  /\ calls[c].pc = "returned"
                  /\ calls[c].result = <<k>>
             ELSE calls[c].exchange

\* C10 witness: a call made between t + E - 300 and t + E performed a new
\* exchange
C10_Witness ==
  \E c \in Calls :
    /\ Called(c) /\ Seen(c).accessToken # <<>>
    /\ LET k == Seen(c).accessToken[1]
       IN  /\ calls[c].calledAt >= calls[k].issuedAt + calls[k].expires_in - ExpiryMargin
           /\ calls[c].calledAt < calls[k].issuedAt + calls[k].expires_in
    /\ calls[c].exchange
    /\ calls[c].pc = "returned"

\* C11: when the token exchange of a getToken call fails, the call raises
\* (it returns no token), the failing step leaves every cached record
\* (accessToken and tokenExpiry, possibly absent) as it was, and the call is
\* over: it sends no further exchange
C11_FailureLeavesRecord ==
  [][\A c \in Calls :
       /\ (calls[c].pc = "fetching" /\ calls'[c].pc = "threw")
            => (service' = service /\ calls'[c].result = <<>>)
       /\ calls[c].pc = "threw" => calls'[c] = calls[c]]_vars

\* C11 witness: a call whose exchange failed found a cached (expired) token
\* when it was made, and the record is still that one
C11_Witness ==
  \E c \in Calls :
    /\ calls[c].pc = "threw"
    /\ Seen(c).accessToken # <<>>
    /\ service[getOrCreateService(calls[c].tenant)] = Seen(c)

C13_VerifyRoundTrip ==
  \A i \in DOMAIN verification :
    LET v == verification[i]
    IN  /\ (v.secret # "" /\ v.signature = HmacSha256Hex(v.secret, v.payload))
             => v.result = "true"
        /\ (v.secret # ""
              /\ \E S \in WebhookSecrets \ {"", v.secret} :
                   v.signature = HmacSha256Hex(S, v.payload))
             => v.result = "false"
        /\ v.secret = "" => v.result = "true"

\* C13 witness: a digest made under one tenant's secret was verified under
\* another tenant's secret, and refused
C13_Witness ==
  \E i \in DOMAIN verification :
    /\ verification[i].secret = "kB"
    /\ verification[i].signature = HmacSha256Hex("kA", verification[i].payload)
    /\ verification[i].result = "false"

(***************************************************************************)
(* Properties of the merchant registry                                     *)
(***************************************************************************)
\* C24: in the built registry merchantKey and apiKey are each unique: every
\* merchant T of getAllMerchants() is the one getMerchantByKey(T.merchantKey)
\* returns and the one getMerchantByApiKey(T.apiKey) returns, for every
\* environment the registry can be built from
C24_KeysResolveToTheirMerchant ==
  \A T \in getAllMerchants(registry.maps) :
    /\ getMerchantByKeyOf(registry.maps, T.merchantKey) = T
    /\ getMerchantByApiKey(registry.maps, T.apiKey) = T

(***************************************************************************)
(* Properties of order creation                                            *)
(***************************************************************************)
\* request r is a POST /orders run of the whole handler
IsOrderRequest(r) == requests[r].method = "ORDER" /\ requests[r].body # Undefined

\* C25: on order creation the callback object is never part of the request
\* sent to the provider; a step registers an entry exactly when it is the
\* return of a successful provider order creation whose request supplied a
\* callback, and the entry is then the callback under the returned order
\* code; a request answered 400 or 500 has registered nothing and delivered
\* nothing.
C25_CallbackStrippedAndRegisteredOnSuccess ==
  /\ [](\A r \in Requests :
          /\ requests[r].providerRequest # Undefined =>
               /\ "callback" \notin DOMAIN requests[r].providerRequest
               /\ \A k \in DOMAIN requests[r].providerRequest :
                    requests[r].providerRequest[k] = requests[r].body[k]
          /\ (IsOrderRequest(r) /\ requests[r].response.status \in {400, 500}) =>
               /\ outbox[r] = <<>>
               /\ requests[r].orderCode = Undefined
               /\ requests[r].config = Undefined)
  /\ [][\A r \in Requests :
          LET created == /\ requests[r].pc = "creating"
                         /\ requests'[r].pc # "creating"
                         /\ requests'[r].response # OrderFailed
          IN  /\ (Steps(r) /\ IsOrderRequest(r)') =>
                   IF created /\ requests[r].body.callback # Undefined
                     THEN /\ getCallback(callbackStore', requests'[r].orderCode)
                               = requests[r].body.callback
                          /\ \A oc \in OrderCodes \ {requests'[r].orderCode} :
                               getCallback(callbackStore', oc)
                                 = getCallback(callbackStore, oc)
                     ELSE callbackStore' = callbackStore
              /\ (Steps(r) /\ IsOrderRequest(r)' /\ ~created) =>
                   (outbox'[r] # outbox[r] => requests[r].pc = "awaiting")]_vars

\* one order was created with a callback and its entry registered, another
\* request with a callback was refused by a validation, and a third failed at
\* the provider
C25_Witness ==
  \E r1, r2 \in Requests :
    /\ requests[r1].pc = "done" /\ requests[r1].response = OrderCreated
    /\ requests[r1].providerRequest # Undefined
    /\ requests[r1].body.callback # Undefined
    /\ getCallback(callbackStore, requests[r1].orderCode) = requests[r1].body.callback
    /\ outbox[r1] # <<>>
    /\ requests[r2].pc = "done" /\ requests[r2].response = OrderFailed
    /\ requests[r2].body.callback # Undefined
    /\ requests[r2].providerRequest # Undefined

\* C26: every event delivered for an order registered with metadata M carries
\* data.metadata = M, whatever its type and whenever it is handled: once a
\* webhook for the order has found the registration, every delivery of a
\* later webhook for that order carries the registration's metadata.
C26_MetadataInEveryEvent ==
  \A q, r \in Requests :
    (/\ q < r
     /\ requests[q].config # Undefined
     /\ Forwarding(r)
     /\ requests[r].orderCode = requests[q].orderCode) =>
      \A i \in DOMAIN outbox[r] :
        LET data == Sent(r, i).body["data"]
        IN  /\ "metadata" \in DOMAIN data
            /\ data["metadata"] = requests[q].config.metadata

\* C27: a delivery to a per-order URL carries X-Webhook-Signature and
\* X-Webhook-Signature-256 if and only if the registration has a non-empty
\* secret; when present, the first is the hex HMAC-SHA256 of the serialized
\* event under the registration's secret and the second is 'sha256='
\* followed by that same value.
C27_SignedIffSecret ==
  \A r \in Requests :
    \A i \in DOMAIN outbox[r] :
      IsPerOrderPost(outbox[r][i]) =>
        LET headers == Sent(r, i).headers
            secret == requests[r].config.secret
            digest == HmacSha256Hex(secret, Sent(r, i).body)
        IN  IF secret # ""
              THEN /\ headers.XWebhookSignature = digest
                   /\ headers.XWebhookSignature256 =
                        [prefix |-> "sha256=", hex |-> digest]
              ELSE /\ headers.XWebhookSignature = Undefined
                   /\ headers.XWebhookSignature256 = Undefined

\* a delivery of a registration with a secret and one of a registration
\* without have both been made to per-order URLs
C27_Witness ==
  \E q, r \in Requests :
    /\ requests[q].config # Undefined /\ requests[q].config.secret # ""
    /\ requests[r].config # Undefined /\ requests[r].config.secret = ""
    /\ \E i \in DOMAIN outbox[q] :
         /\ IsPerOrderPost(outbox[q][i])
         /\ outbox[q][i].outcome = "delivered"
         /\ Sent(q, i).headers.XWebhookSignature # Undefined
    /\ \E i \in DOMAIN outbox[r] :
         /\ IsPerOrderPost(outbox[r][i])
         /\ outbox[r][i].outcome = "delivered"
         /\ Sent(r, i).headers.XWebhookSignature = Undefined

(***************************************************************************)
(* Properties of the CallbackStore                                         *)
(***************************************************************************)
\* the keys of the store that stand for order code n
KeysOf(store, n) == {k \in DOMAIN store : k.digits = n.digits}

\* C28: CallbackStore keys are normalized: after register(n, c) with a
\* numeric order code n, get(n) and get(String(n)) both return c; after a
\* remove with either form both get forms return absent; the store never
\* holds an entry under more than one key for the same order code, and that
\* key is the string form.
C28_KeysNormalized ==
  /\ [](\A n \in StoreCodes :
          /\ KeysOf(callbackStore, n) \subseteq {String(n)}
          /\ getCallback(callbackStore, n) = getCallback(callbackStore, String(n)))
  /\ [][\A n \in StoreCodes :
          /\ \A c \in RouteConfigs :
               RegisterCallback(n, c) =>
                 /\ getCallback(callbackStore', n) = c
                 /\ getCallback(callbackStore', String(n)) = c
          /\ \A orderCode \in Forms(n) :
               RemoveCallback(orderCode) =>
                 /\ getCallback(callbackStore', n) = Undefined
                 /\ getCallback(callbackStore', String(n)) = Undefined]_vars

\* an entry registered under a numeric code is found under both forms and
\* is held under a single key, the string form
C28_Witness ==
  \E n \in StoreCodes :
    /\ getCallback(callbackStore, n) # Undefined
    /\ getCallback(callbackStore, String(n)) = getCallback(callbackStore, n)
    /\ DOMAIN callbackStore = {String(n)}

(***************************************************************************)
(* Properties of the API-key authentication                                *)
(***************************************************************************)
\* the X-Api-Key header of request r is missing, empty or the key of no
\* merchant of the registry
NoMerchantFor(apiKey) ==
  \/ apiKey = Undefined
  \/ apiKey = EmptyHeader
  \/ \A k \in DOMAIN registry.maps.byKey :
       registry.maps.byKey[k].apiKey # apiKey

IsDebugRequest(req) == req.method \in {"SIMULATE", "INTROSPECT"}

\* C30: when NODE_ENV is production, the simulate-webhook and the
\* callback-introspection endpoints answer 403 and have no effect: the
\* request makes no outbound delivery, reads out no CallbackStore entry, and
\* leaves the store as it is.
C30_DebugDisabledInProduction ==
  /\ [](\A r \in Requests :
          (NODE_ENV = "production" /\ IsDebugRequest(requests[r])) =>
            /\ requests[r].pc = "done"
            /\ requests[r].response = Forbidden
            /\ requests[r].event = ""
            /\ requests[r].orderCode = Undefined
            /\ requests[r].config = Undefined
            /\ outbox[r] = <<>>)
  /\ [][\A r \in Requests :
          (NODE_ENV = "production" /\ Arrives(r) /\ IsDebugRequest(requests'[r])) =>
            /\ callbackStore' = callbackStore
            /\ outbox' = outbox]_vars

\* in production, with order 111 registered, a simulate request and an
\* introspection request were both answered 403 and the entry is still there
C30_Witness ==
  /\ NODE_ENV = "production"
  /\ getCallback(callbackStore, NumberCode("111")) # Undefined
  /\ \E q, r \in Requests :
       /\ requests[q].method = "SIMULATE" /\ requests[q].response = Forbidden
       /\ requests[r].method = "INTROSPECT" /\ requests[r].response = Forbidden

(***************************************************************************)
(* Properties of the token cache under concurrent refreshes                *)
(***************************************************************************)
\* the cache record rec of tenant t is empty, or token and expiry both come
\* from the answer to one exchange of that tenant
FromOneExchange(rec, t) ==
  \/ rec.accessToken = <<>> /\ rec.tokenExpiry = <<>>
  \/ \E c \in Calls :
       /\ calls[c].pc = "returned" /\ calls[c].exchange
       /\ calls[c].tenant = t
       /\ rec.accessToken = <<c>>
       /\ rec.tokenExpiry =
            <<calls[c].issuedAt + calls[c].expires_in - ExpiryMargin>>

\* C31: the cached token record is replaced wholesale: in every state, and
\* in every record a call found, accessToken and tokenExpiry are both absent
\* or both taken from the answer to the same successful exchange, also when
\* two refreshes of one tenant are in flight together and one overwrites the
\* other.
C31_RecordReplacedWholesale ==
  /\ \A t \in Tenants : FromOneExchange(service[t], t)
  /\ \A c \in Calls : Called(c) => FromOneExchange(Seen(c), calls[c].tenant)

\* two refreshes of one tenant were in flight together (each found no token),
\* both succeeded with different lifetimes, and the one that started first
\* answered last and overwrote the other
C31_Witness ==
  \E c1, c2 \in Calls :
    /\ c1 < c2
    /\ calls[c1].tenant = calls[c2].tenant
    /\ calls[c1].pc = "returned" /\ calls[c1].exchange
    /\ calls[c2].pc = "returned" /\ calls[c2].exchange
    /\ Seen(c1).accessToken = <<>> /\ Seen(c2).accessToken = <<>>
    /\ calls[c1].expires_in # calls[c2].expires_in
    /\ service[calls[c1].tenant].accessToken = <<c1>>

\* C36: when the provider answers an exchange with expires_in E <= 300, the
\* stored expiry is not after the time of the answer, and the token is never
\* served from the cache: every later call of that tenant that finds it
\* performs a new exchange.
C36_ShortLivedTokenNeverServed ==
  \A c1, c2 \in Calls :
    ( /\ calls[c1].pc = "returned" /\ calls[c1].exchange
      /\ calls[c1].expires_in <= ExpiryMargin
      /\ Called(c2)
      /\ Seen(c2).accessToken = <<c1>> )
    => ( /\ Seen(c2).tokenExpiry[1] <= calls[c1].issuedAt
         /\ calls[c2].calledAt >= calls[c1].issuedAt
         /\ calls[c2].exchange
         /\ calls[c2].result # <<c1>> )

\* a token answered with expires_in = 300 was cached, and a call made in the
\* same second found it and performed its own exchange
C36_Witness ==
  \E c1, c2 \in Calls :
    /\ calls[c1].pc = "returned" /\ calls[c1].exchange
    /\ calls[c1].expires_in = ExpiryMargin
    /\ Called(c2)
    /\ Seen(c2).accessToken = <<c1>>
    /\ calls[c2].calledAt = calls[c1].issuedAt
    /\ calls[c2].pc = "returned" /\ calls[c2].exchange

(***************************************************************************)
(* Order of the deliveries of one event                                    *)
(***************************************************************************)
\* the attempts of request r that have not finished
PendingAttempts(r) == {i \in DOMAIN outbox[r] : outbox[r][i].outcome = "pending"}

\* the positions in outbox[r] of the POSTs to url
PositionsOf(r, url) == {i \in DOMAIN outbox[r] : outbox[r][i].url = url}

\* C32: the deliveries of one event are sequential and ordered: an attempt
\* starts only when every earlier attempt of the event has finished; for
\* payment.success every POST to successUrl precedes every POST to a
\* different webhookUrl, for payment.failed failureUrl precedes webhookUrl;
\* and a step of a payment.success forwarder changes the CallbackStore only
\* when it completes, with no attempt left pending.
C32_SequentialOrdered ==
  /\ [](\A r \in Requests :
          /\ PendingAttempts(r) \subseteq {Len(outbox[r])}
          /\ (PendingAttempts(r) # {}) <=> (requests[r].pc = "awaiting")
          /\ (requests[r].event \in {PAYMENT_SUCCESS, PAYMENT_FAILED}
                /\ requests[r].config # Undefined) =>
               LET first == IF requests[r].event = PAYMENT_SUCCESS
                              THEN requests[r].config.successUrl
                              ELSE requests[r].config.failureUrl
                   second == requests[r].config.webhookUrl
               IN  first # second =>
                     \A i \in PositionsOf(r, first), j \in PositionsOf(r, second) :
                       i < j /\ outbox[r][i].outcome # "pending")
  /\ [][\A r \in Requests :
          (Steps(r) /\ requests'[r].event = PAYMENT_SUCCESS) =>
            IF Completes(r)
              THEN /\ PendingAttempts(r)' = {}
                   /\ callbackStore' = removeCallback(callbackStore, requests'[r].orderCode)
              ELSE callbackStore' = callbackStore]_vars

\* a payment.success for a registration with successUrl and webhookUrl is
\* done: the failed attempt to successUrl came first, the attempt to
\* webhookUrl second, and the entry is gone
C32_Witness ==
  \E r \in Requests :
    /\ requests[r].pc = "done" /\ requests[r].event = PAYMENT_SUCCESS
    /\ requests[r].config # Undefined
    /\ requests[r].config.successUrl # ""
    /\ requests[r].config.webhookUrl # requests[r].config.successUrl
    /\ Len(outbox[r]) = 2
    /\ outbox[r][1].url = requests[r].config.successUrl
    /\ outbox[r][1].outcome = "failed"
    /\ outbox[r][2].url = requests[r].config.webhookUrl
    /\ outbox[r][2].outcome = "delivered"
    /\ getCallback(callbackStore, requests[r].orderCode) = Undefined

(***************************************************************************)
(* Acknowledgement and interleaving                                        *)
(***************************************************************************)
\* q is the next request to arrive
NextToArrive(q) ==
  /\ requests[q].pc = "idle"
  /\ q > 1 => requests[q - 1].pc # "idle"

\* C33: the answer to the provider for an inbound webhook is sent only after
\* every outbound delivery attempt of that event has finished; while the
\* attempts of a request are pending, the next inbound webhook (also one for
\* the same order code) can be handled.
C33_AckAfterDeliveries ==
  /\ \A r \in Requests :
       (requests[r].method = "POST" /\ requests[r].response # NoResponse) =>
         /\ requests[r].pc = "done"
         /\ requests[r].todo = <<>>
         /\ PendingAttempts(r) = {}
  /\ \A r \in Requests :
       (requests[r].method = "POST" /\ PendingAttempts(r) # {}) =>
         /\ requests[r].response = NoResponse
         /\ \A q \in Requests : NextToArrive(q) => ENABLED ProviderWebhook(q)

\* while the payment.success delivery of one webhook for order 111 is still
\* pending and unanswered, a later payment.success webhook for the same
\* order has read the same entry, been delivered and answered, and removed
\* the entry
C33_Witness ==
  \E r, q \in Requests :
    /\ r < q
    /\ requests[r].pc = "awaiting" /\ requests[r].response = NoResponse
    /\ requests[r].event = PAYMENT_SUCCESS
    /\ requests[r].config # Undefined
    /\ requests[q].pc = "done" /\ requests[q].response = Ack
    /\ requests[q].orderCode = requests[r].orderCode
    /\ requests[q].config = requests[r].config
    /\ outbox[q] # <<>>
    /\ getCallback(callbackStore, requests[r].orderCode) = Undefined

(***************************************************************************)
(* Events after the payment.success of an order                            *)
(***************************************************************************)
\* every POST request r has made or still plans goes to the default URL
OnlyDefaultUrl(reqs, box, r) ==
  /\ \A i \in DOMAIN box[r] : box[r][i].url = DEFAULT_CALLBACK_URL
  /\ \A i \in DOMAIN reqs[r].todo : reqs[r].todo[i].url = DEFAULT_CALLBACK_URL

\* C34: once the handling of payment.success for an order has completed and
\* the order is not registered again, a payment.failed or payment.refunded
\* webhook that arrives for the order finds no registration, and is POSTed
\* to no URL of the former registration: only to the process-wide default
\* URL, if one is configured.
C34_NothingToFormerUrls ==
  /\ [][\A q, r \in Requests :
          ( /\ requests[q].pc = "done"
            /\ requests[q].event = PAYMENT_SUCCESS
            /\ Arrives(r)
            /\ requests'[r].event \in {PAYMENT_FAILED, PAYMENT_REFUNDED}
            /\ requests'[r].orderCode = requests[q].orderCode )
          => ( /\ requests'[r].config = Undefined
               /\ OnlyDefaultUrl(requests', outbox', r)
               /\ (DEFAULT_CALLBACK_URL = "" => requests'[r].pc = "done") )]_vars
  /\ [](\A r \in Requests :
          (Forwarding(r) /\ requests[r].config = Undefined) =>
            /\ OnlyDefaultUrl(requests, outbox, r)
            /\ \A i \in DOMAIN outbox[r] :
                 outbox[r][i].url \notin PerOrderUrls(EchoConfig))

\* after the payment.success of order 111 was handled, a refund webhook for
\* it was delivered to the default URL alone
C34_Witness ==
  \E q, r \in Requests :
    /\ q < r
    /\ requests[q].pc = "done" /\ requests[q].event = PAYMENT_SUCCESS
    /\ requests[q].config = EchoConfig
    /\ requests[r].pc = "done" /\ requests[r].event = PAYMENT_REFUNDED
    /\ requests[r].orderCode = requests[q].orderCode
    /\ requests[r].config = Undefined
    /\ Len(outbox[r]) = 1
    /\ outbox[r][1].url = DEFAULT_CALLBACK_URL
    /\ outbox[r][1].outcome = "delivered"

(***************************************************************************)
(* Signing keys of the deliveries                                          *)
(***************************************************************************)
\* the X-Webhook-Signature value of a body under secret, none when the
\* secret is empty
SignatureUnder(secret, body) ==
  IF secret # "" THEN HmacSha256Hex(secret, body) ELSE Undefined

\* C35: a delivery to the process-wide default callback URL is signed with
\* the process-wide default secret (unsigned if that is empty) and never
\* with the secret of the order's registration; a delivery to a per-order
\* URL is signed with the registration's secret and never with the default
\* secret.
C35_SecretsKeptApart ==
  \A r \in Requests :
    \A i \in DOMAIN outbox[r] :
      LET signature == Sent(r, i).headers.XWebhookSignature
          body == Sent(r, i).body
          config == requests[r].config
      IN  IF outbox[r][i].url = DEFAULT_CALLBACK_URL
            THEN /\ signature = SignatureUnder(DEFAULT_CALLBACK_SECRET, body)
                 /\ (config # Undefined /\ config.secret # "") =>
                      signature # HmacSha256Hex(config.secret, body)
            ELSE /\ signature = SignatureUnder(config.secret, body)
                 /\ DEFAULT_CALLBACK_SECRET # "" =>
                      signature # HmacSha256Hex(DEFAULT_CALLBACK_SECRET, body)

\* one event of a registration with a secret was delivered both to its
\* webhookUrl and to the default URL, each signed
C35_Witness ==
  \E r \in Requests :
    /\ requests[r].config # Undefined /\ requests[r].config.secret # ""
    /\ DEFAULT_CALLBACK_SECRET # ""
    /\ \E i, j \in DOMAIN outbox[r] :
         /\ outbox[r][i].url = requests[r].config.webhookUrl
         /\ outbox[r][i].outcome = "delivered"
         /\ outbox[r][j].url = DEFAULT_CALLBACK_URL
         /\ outbox[r][j].outcome = "delivered"
         /\ Sent(r, i).headers.XWebhookSignature # Sent(r, j).headers.XWebhookSignature

(***************************************************************************)
(* Order creation and the order.created delivery                           *)
(***************************************************************************)
IsOrderCreation(req) == req.method = "ORDER" /\ req.event = ORDER_CREATED

\* no payment.success for orderCode has been handled to its end, and no
\* order creation after request r has registered orderCode again
StillRegisteredBy(r, orderCode) ==
  \A s \in Requests :
    /\ ~(requests[s].event = PAYMENT_SUCCESS /\ requests[s].pc = "done"
           /\ requests[s].orderCode = orderCode)
    /\ ~(s > r /\ IsOrderCreation(requests[s]) /\ requests[s].orderCode = orderCode)

\* C37: on order creation with a callback the entry is registered in the
\* step that starts the order.created delivery, so a provider webhook for
\* the order that arrives while that delivery is pending finds the entry;
\* the later steps of the order creation leave the store as it is, and the
\* request is answered 201 whatever the outcome of its deliveries.
C37_RegisteredBeforeNotified ==
  /\ [][\A r \in Requests :
          /\ (Arrives(r) /\ IsOrderCreation(requests'[r])) =>
               getCallback(callbackStore', requests'[r].orderCode) = requests'[r].config
          /\ (Steps(r) /\ ~Arrives(r) /\ IsOrderCreation(requests[r])) =>
               callbackStore' = callbackStore
          /\ \A q \in Requests :
               ( /\ IsOrderCreation(requests[r]) /\ requests[r].pc = "awaiting"
                 /\ Arrives(q) /\ requests'[q].method = "POST"
                 /\ requests'[q].orderCode = requests[r].orderCode
                 /\ StillRegisteredBy(r, requests[r].orderCode) )
               => requests'[q].config = requests[r].config]_vars
  /\ [](\A r \in Requests :
          (IsOrderCreation(requests[r]) /\ requests[r].pc = "done") =>
            requests[r].response = OrderCreated)

\* a payment.failed webhook handled while the order.created delivery of its
\* order is still pending has found the entry and been delivered to the
\* registered URL
C37_Witness ==
  \E r, q \in Requests :
    /\ IsOrderCreation(requests[r]) /\ requests[r].pc = "awaiting"
    /\ requests[q].method = "POST" /\ requests[q].pc = "done"
    /\ requests[q].event = PAYMENT_FAILED
    /\ requests[q].orderCode = requests[r].orderCode
    /\ requests[q].config = requests[r].config
    /\ outbox[q] # <<>>
    /\ outbox[q][1].url = requests[r].config.webhookUrl
    /\ outbox[q][1].outcome = "delivered"

(***************************************************************************)
(* Simulated webhooks against real ones                                    *)
(***************************************************************************)
\* the provider's event code for a simulated event type
ProviderCode(eventType) ==
  CASE eventType = "success" -> 1796
    [] eventType = "failed" -> 1798
    [] eventType = "refund" -> 1797

\* what the forwarder of request r has done and still plans: the event, the
\* registration it read, and its POSTs (URL, signing secret, headers)
Deliveries(r) ==
  [event |-> requests[r].event,
   config |-> requests[r].config,
   posts |-> [i \in DOMAIN outbox[r] |->
                [url |-> outbox[r][i].url, secret |-> outbox[r][i].secret,
                 XWebhookEvent |-> Sent(r, i).headers.XWebhookEvent,
                 XWebhookSignature |-> Sent(r, i).headers.XWebhookSignature]],
   planned |-> requests[r].todo]

\* the same, with the outcomes left out and the planned POSTs counted in
Plan(r) ==
  [i \in 1..(Len(outbox[r]) + Len(requests[r].todo)) |->
     IF i <= Len(outbox[r])
       THEN [url |-> outbox[r][i].url, secret |-> outbox[r][i].secret]
       ELSE requests[r].todo[i - Len(outbox[r])]]

\* C38: outside production a simulate-webhook request with eventType
\* success, failed or refund for order code X is handled as the provider's
\* webhook with event code 1796, 1798 or 1797 for X: it arrives with that
\* event for the numeric X and the registration of X; a simulated and a real
\* request of one event code that read the same registration make the same
\* POSTs with the same event header and signature; and each settles the
\* CallbackStore in the same way when it completes.
C38_SimulateAsReal ==
  /\ [][\A r \in Requests, orderCode \in Forms(NumberCode("111")),
          eventType \in SimulateTypes :
          TestSimulate(r, orderCode, eventType) =>
            /\ requests'[r].body.EventTypeId = ProviderCode(eventType)
            /\ requests'[r].event = EventOf(ProviderCode(eventType))
            /\ requests'[r].orderCode = NumberCode("111")
            /\ requests'[r].config = getCallback(callbackStore, NumberCode("111"))]_vars
  /\ [](\A q, r \in Requests :
          ( /\ requests[q].method = "POST" /\ Forwarding(q)
            /\ requests[r].method = "SIMULATE" /\ Forwarding(r)
            /\ requests[q].body.EventTypeId = requests[r].body.EventTypeId
            /\ requests[q].orderCode = requests[r].orderCode
            /\ requests[q].config = requests[r].config )
          => /\ requests[q].event = requests[r].event
             /\ Plan(q) = Plan(r)
             /\ \A i \in DOMAIN outbox[q] \cap DOMAIN outbox[r] :
                  Deliveries(q).posts[i] = Deliveries(r).posts[i])
  /\ [][\A r \in Requests :
          (Completes(r) /\ requests'[r].method \in {"POST", "SIMULATE"}
             /\ requests'[r].event # "") =>
            callbackStore' =
              IF requests'[r].event = PAYMENT_SUCCESS
                THEN removeCallback(callbackStore, requests'[r].orderCode)
                ELSE callbackStore]_vars

\* a simulated refund and the provider's refund webhook for the registered
\* order 111 were both delivered, with the same POSTs
C38_Witness ==
  \E q, r \in Requests :
    /\ requests[q].method = "POST" /\ requests[q].pc = "done"
    /\ requests[r].method = "SIMULATE" /\ requests[r].pc = "done"
    /\ requests[q].event = PAYMENT_REFUNDED /\ requests[r].event = PAYMENT_REFUNDED
    /\ requests[q].config # Undefined
    /\ requests[q].config = requests[r].config
    /\ outbox[q] # <<>>
    /\ Deliveries(q).posts = Deliveries(r).posts
    /\ \A i \in DOMAIN outbox[r] : outbox[r][i].outcome = "delivered"

(***************************************************************************)
(* The status of an order of the demo store                                *)
(***************************************************************************)
\* the order status flow the demo store documents
DocumentedFlow ==
  {<<OrderStatus.PENDING, OrderStatus.AWAITING_PAYMENT>>,
   <<OrderStatus.AWAITING_PAYMENT, OrderStatus.PAID>>,
   <<OrderStatus.AWAITING_PAYMENT, OrderStatus.FAILED>>,
   <<OrderStatus.AWAITING_PAYMENT, OrderStatus.REFUNDED>>,
   <<OrderStatus.PAID, OrderStatus.SHIPPED>>,
   <<OrderStatus.SHIPPED, OrderStatus.DELIVERED>>}

HasStatus(orderId, status) ==
  orderId \in DOMAIN orders /\ orders[orderId].status = status

\* every change of an order's status is a step of the documented flow
StatusStepsAlongFlow ==
  [][\A orderId \in DOMAIN orders :
       orders'[orderId].status # orders[orderId].status
         => <<orders[orderId].status, orders'[orderId].status>> \in DocumentedFlow]_vars

\* a paid order is never failed afterwards, and a failed or refunded order
\* is never paid afterwards
NoWayBack ==
  \A orderId \in DemoOrderIds :
    /\ [](HasStatus(orderId, OrderStatus.PAID)
            => [](~HasStatus(orderId, OrderStatus.FAILED)))
    /\ [](HasStatus(orderId, OrderStatus.FAILED) \/ HasStatus(orderId, OrderStatus.REFUNDED)
            => [](~HasStatus(orderId, OrderStatus.PAID)))

\* C39: in the demo store an order's status changes only along the documented
\* flow (pending to awaiting_payment, then to paid, failed or refunded): no
\* sequence of received payment webhooks or simulated payments moves a paid
\* order to failed, or a failed or refunded order back to paid.
C39_StatusAlongFlow == StatusStepsAlongFlow /\ NoWayBack

====
